---- MODULE Spec2Model ----
(***************************************************************************)
(* Model of the NPR parking calculator: the zone catalog and zone resolver *)
(* (services/npr_zone.py) and the fare engine (services/npr_tarief.py).    *)
(*                                                                         *)
(* Representation.                                                         *)
(*  - A Python str is a sequence of one-character strings, so that         *)
(*    upper(), lower(), replace(" ", ""), slicing, int(), str() and        *)
(*    f-string concatenation are computed and not assumed.                 *)
(*  - A datetime is a number of seconds since 2024-01-01T00:00:00.         *)
(*  - Money (AmountFarePart, AmountCumulative, total_cost) is counted in   *)
(*    eighths of a euro: on that grid Python's float arithmetic is exact,  *)
(*    and round(x, 2) is exactly round-half-even to whole cents.           *)
(*  - A dict is a record and None is the record None below (NoneStr where  *)
(*    a str is expected); the insertion ordered dict available_zones is a  *)
(*    sequence of zone records.                                            *)
(*  - tarief_data is the sequence of the rows read. A dataset that could   *)
(*    not be read (tarief_data None, available_zones {}) answers every     *)
(*    call modelled here as the dataset without rows does.                 *)
(***************************************************************************)
EXTENDS Integers, Sequences, FiniteSets, TLC

VARIABLES
    tarief_data,             \* the rows of data/dataset.csv, in file order
    available_zones,         \* NPRZoneService.available_zones
    postcode_to_zone_cache,  \* NPRZoneService.postcode_to_zone_cache
    zone_call,               \* the last direct get_zone_by_address call: input, result, path taken
    kosten_call,             \* the bereken_kosten call: input, result, walk taken
    watched,                 \* observer: one earlier get_zone_by_address call, kept for comparison
    threads,                 \* request threads inside get_zone_by_address: position and locals
    api_call                 \* the last call of the other operations: input and result

vars == <<tarief_data, available_zones, postcode_to_zone_cache, zone_call, kosten_call, watched,
          threads, api_call>>

\* None where a dict is expected, and None where a str is expected
None == [none |-> TRUE]
NoneStr == <<"None">>
NaN == <<"NaN">>

(***************************************************************************)
(* Strings                                                                 *)
(***************************************************************************)
UpperChars == <<"A","B","C","D","E","F","G","H","I","J","K","L","M",
                "N","O","P","Q","R","S","T","U","V","W","X","Y","Z">>
LowerChars == <<"a","b","c","d","e","f","g","h","i","j","k","l","m",
                "n","o","p","q","r","s","t","u","v","w","x","y","z">>
DigitChars == <<"0","1","2","3","4","5","6","7","8","9">>

\* code point order of the characters the model uses (for string comparison)
CharOrder == <<" ", "-">> \o DigitChars \o UpperChars \o <<"_">> \o LowerChars

IndexOf(c, table) == CHOOSE i \in 1..Len(table) : table[i] = c

InTable(c, table) == \E i \in 1..Len(table) : table[i] = c

UpperChar(c) == IF InTable(c, LowerChars) THEN UpperChars[IndexOf(c, LowerChars)] ELSE c

LowerChar(c) == IF InTable(c, UpperChars) THEN LowerChars[IndexOf(c, UpperChars)] ELSE c

\* str.upper()
Upper(s) == [i \in 1..Len(s) |-> UpperChar(s[i])]

\* str.lower()
Lower(s) == [i \in 1..Len(s) |-> LowerChar(s[i])]

\* str.replace(" ", "")
RemoveSpaces(s) == SelectSeq(s, LAMBDA c : c # " ")

\* s[:n]
Prefix(s, n) == SubSeq(s, 1, IF Len(s) < n THEN Len(s) ELSE n)

\* str(n) for an int n >= 0
RECURSIVE IntToStr(_)
IntToStr(n) == IF n < 10 THEN <<DigitChars[n + 1]>>
               ELSE IntToStr(n \div 10) \o <<DigitChars[(n % 10) + 1]>>

\* int(s) succeeds (no ValueError) on a non-empty string of decimal digits
IsIntLiteral(s) == Len(s) > 0 /\ \A i \in 1..Len(s) : InTable(s[i], DigitChars)

\* int(s) for such a string
RECURSIVE StrToInt(_)
StrToInt(s) == IF Len(s) = 0 THEN 0
               ELSE 10 * StrToInt(SubSeq(s, 1, Len(s) - 1)) + (IndexOf(s[Len(s)], DigitChars) - 1)

\* a < b for Python str
RECURSIVE StrLess(_, _)
StrLess(a, b) ==
    IF Len(b) = 0 THEN FALSE
    ELSE IF Len(a) = 0 THEN TRUE
    ELSE IF a[1] = b[1] THEN StrLess(Tail(a), Tail(b))
    ELSE IndexOf(a[1], CharOrder) < IndexOf(b[1], CharOrder)

\* needle in haystack for Python str
Contains(haystack, needle) ==
    \E i \in 0..(Len(haystack) - Len(needle)) :
        SubSeq(haystack, i + 1, i + Len(needle)) = needle

(***************************************************************************)
(* The dataset (data/dataset.csv as read by pandas.read_csv)               *)
(***************************************************************************)
\* one CSV row; a missing FareCalculationCode is read as NaN
Row(area, code, from, to, start, end, amount, step, cumulative) ==
    [AreaManagerId |-> area, FareCalculationCode |-> code,
     StartDateFarePart |-> from, EndDateFarePart |-> to,
     StartDurationFarePart |-> start, EndDurationFarePart |-> end,
     AmountFarePart |-> amount, StepSizeFarePart |-> step, AmountCumulative |-> cumulative]

(***************************************************************************)
(* Zone catalog: NPRZoneService._load_all_npr_zones                        *)
(***************************************************************************)
\* (area, code) < (area2, code2) in the order groupby sorts its keys
GroupKeyLess(k1, k2) ==
    \/ k1[1] < k2[1]
    \/ k1[1] = k2[1] /\ StrLess(k1[2], k2[2])

\* the keys of a set of group keys, ascending
RECURSIVE SortGroupKeys(_)
SortGroupKeys(keys) ==
    IF keys = {} THEN <<>>
    ELSE LET first == CHOOSE k \in keys : \A o \in keys \ {k} : GroupKeyLess(k, o)
         IN  <<first>> \o SortGroupKeys(keys \ {first})

\* df.groupby(['AreaManagerId','FareCalculationCode']).size().reset_index(name='count'):
\* one line per key, keys sorted, rows with a NaN key dropped
GroupBySize(rows) ==
    LET keyed == {i \in 1..Len(rows) : rows[i].FareCalculationCode # NaN}
        keys  == {<<rows[i].AreaManagerId, rows[i].FareCalculationCode>> : i \in keyed}
        order == SortGroupKeys(keys)
    IN  [g \in 1..Len(order) |->
            [AreaManagerId |-> order[g][1], FareCalculationCode |-> order[g][2],
             count |-> Cardinality({i \in keyed :
                          <<rows[i].AreaManagerId, rows[i].FareCalculationCode>> = order[g]})]]

\* str(row['FareCalculationCode'])
StrOfCode(code) == IF code = NaN THEN <<"n","a","n">> ELSE code

\* f"{area_id}_{fare_code}"
ZoneKey(area_id, fare_code) == IntToStr(area_id) \o <<"_">> \o fare_code

\* f"Zone {area_id} - {fare_code}"
ZoneNaam(area_id, fare_code) ==
    <<"Z","o","n","e"," ">> \o IntToStr(area_id) \o <<" ","-"," ">> \o fare_code

\* key in d, for the ordered dict d
HasKey(d, key) == \E i \in 1..Len(d) : d[i].zone_id = key

\* d[key]
Lookup(d, key) == d[CHOOSE i \in 1..Len(d) : d[i].zone_id = key]

\* d[key] = value: an existing key keeps its position, a new key goes last
DictPut(d, key, value) ==
    IF HasKey(d, key)
    THEN [i \in 1..Len(d) |-> IF d[i].zone_id = key THEN value ELSE d[i]]
    ELSE Append(d, value)

RECURSIVE LoadZoneGroups(_, _, _)
LoadZoneGroups(groups, g, zones) ==
    IF g > Len(groups) THEN zones
    ELSE LET area_id   == groups[g].AreaManagerId
             fare_code == StrOfCode(groups[g].FareCalculationCode)
             zone_key  == ZoneKey(area_id, fare_code)
         IN  IF fare_code = <<"n","a","n">>
             THEN LoadZoneGroups(groups, g + 1, zones)
             ELSE LoadZoneGroups(groups, g + 1,
                      DictPut(zones, zone_key,
                          [area_manager_id |-> area_id,
                           fare_calculation_code |-> fare_code,
                           zone_id |-> zone_key,
                           zone_naam |-> ZoneNaam(area_id, fare_code),
                           record_count |-> groups[g].count]))

LoadAllNprZones(rows) == LoadZoneGroups(GroupBySize(rows), 1, <<>>)

\* zone_info.copy() followed by copy['detection_method'] = method
WithMethod(zone_info, method) ==
    [area_manager_id |-> zone_info.area_manager_id,
     fare_calculation_code |-> zone_info.fare_calculation_code,
     zone_id |-> zone_info.zone_id,
     zone_naam |-> zone_info.zone_naam,
     record_count |-> zone_info.record_count,
     detection_method |-> method]

(***************************************************************************)
(* Zone resolver                                                           *)
(***************************************************************************)
\* a variant that is not stable: among equal counts the last comes first
RECURSIVE SortByCountDesc_LastTieFirst(_)
SortByCountDesc_LastTieFirst(zones) ==
    IF Len(zones) = 0 THEN <<>>
    ELSE LET top == CHOOSE i \in 1..Len(zones) :
                        /\ \A j \in 1..Len(zones) : zones[j].record_count <= zones[i].record_count
                        /\ \A j \in (i + 1)..Len(zones) :
                               zones[j].record_count < zones[i].record_count
         IN  <<zones[top]>> \o
             SortByCountDesc_LastTieFirst(
                 SubSeq(zones, 1, top - 1) \o SubSeq(zones, top + 1, Len(zones)))

\* sorted(items, key=record_count, reverse=True): stable, so equal counts keep
\* their dict order
RECURSIVE SortByCountDesc(_)
SortByCountDesc(zones) ==
    IF Len(zones) = 0 THEN <<>>
    ELSE LET top == CHOOSE i \in 1..Len(zones) :
                        /\ \A j \in 1..Len(zones) : zones[j].record_count <= zones[i].record_count
                        /\ \A j \in 1..(i - 1) : zones[j].record_count < zones[i].record_count
         IN  <<zones[top]>> \o
             SortByCountDesc(SubSeq(zones, 1, top - 1) \o SubSeq(zones, top + 1, Len(zones)))

\* NPRZoneService._get_fallback_zone
GetFallbackZone(zones) ==
    IF Len(zones) = 0 THEN None
    ELSE WithMethod(SortByCountDesc(zones)[1], "fallback_most_popular")

\* NPRZoneService._find_most_popular_zone
FindMostPopularZone(zones) == GetFallbackZone(zones)

\* NPRZoneService.get_available_zones
GetAvailableZones(zones) == [zones |-> SortByCountDesc(zones), total |-> Len(zones)]

\* a variant that does not lower-case the search term
SearchZonesByName_TermAsTyped(zones, search_term) ==
    SelectSeq(zones, LAMBDA zone_info :
        \/ Contains(Lower(zone_info.zone_naam), search_term)
        \/ Contains(Lower(zone_info.fare_calculation_code), search_term)
        \/ Contains(IntToStr(zone_info.area_manager_id), search_term))

\* NPRZoneService.search_zones_by_name: copies of the matching zones, in
\* catalog order
SearchZonesByName(zones, search_term) ==
    SelectSeq(zones, LAMBDA zone_info :
        \/ Contains(Lower(zone_info.zone_naam), Lower(search_term))
        \/ Contains(Lower(zone_info.fare_calculation_code), Lower(search_term))
        \/ Contains(IntToStr(zone_info.area_manager_id), Lower(search_term)))

\* NPRZoneService.get_zone_by_id: available_zones.get(zone_id)
GetZoneById(zones, zone_id) == IF HasKey(zones, zone_id) THEN Lookup(zones, zone_id) ELSE None

\* NPRZoneService._guess_city_from_postcode; int() raises on a non-number
GuessCityRaises(postcode_cijfers) == ~IsIntLiteral(postcode_cijfers)

GuessCityFromPostcode(postcode_cijfers) ==
    LET pc_int == StrToInt(postcode_cijfers)
    IN  IF 1000 <= pc_int /\ pc_int <= 1299 THEN <<"A","m","s","t","e","r","d","a","m">>
        ELSE IF 3000 <= pc_int /\ pc_int <= 3299 THEN <<"R","o","t","t","e","r","d","a","m">>
        ELSE IF 3500 <= pc_int /\ pc_int <= 3599 THEN <<"U","t","r","e","c","h","t">>
        ELSE IF 2500 <= pc_int /\ pc_int <= 2699 THEN <<"D","e","n"," ","H","a","a","g">>
        ELSE <<"N","e","d","e","r","l","a","n","d">>

TAR01 == <<"T","A","R","0","1">>
TAR02 == <<"T","A","R","0","2">>
TAR03 == <<"T","A","R","0","3">>
TAR04 == <<"T","A","R","0","4">>
PR01  == <<"P","R","0","1">>
GAR01 == <<"G","A","R","0","1">>
CPL01 == <<"C","P","L","0","1">>

\* city_patterns: municipality -> ordered (area_id, fare codes) pairs
CityPatterns ==
    << [city |-> <<"a","m","s","t","e","r","d","a","m">>,
        pairs |-> << <<14, <<TAR01, TAR02, TAR03, TAR04>> >>,
                     <<14, << <<"1","4","_","D","A","G","T","A","R">>,
                              <<"P","R","T","A","R","0","1">> >> >> >>],
       [city |-> <<"u","t","r","e","c","h","t">>,
        pairs |-> << <<34, << <<"3","4","_","T","A","R","0","1">>,
                              <<"3","4","_","T","A","R","0","2">> >> >>,
                     <<34, << <<"3","4","_","D","A","G","0","1">>,
                              <<"3","4","_","D","A","G","0","2">> >> >> >>],
       [city |-> <<"r","o","t","t","e","r","d","a","m">>,
        pairs |-> << <<17, <<TAR01, GAR01>> >>, <<5, <<PR01>> >> >>],
       [city |-> <<"d","e","n"," ","h","a","a","g">>,
        pairs |-> << <<10, <<TAR01, CPL01>> >>, <<3, <<PR01>> >> >>] >>

\* the zone keys the two nested loops try for one municipality, in loop order
RECURSIVE CandidateKeys(_)
CandidateKeys(pairs) ==
    IF Len(pairs) = 0 THEN <<>>
    ELSE [c \in 1..Len(pairs[1][2]) |-> ZoneKey(pairs[1][1], pairs[1][2][c])]
         \o CandidateKeys(Tail(pairs))

\* a variant that keeps looping after a hit, so that the last hit wins
FindZoneByCityHeuristics_LastHit(zones, gemeente) ==
    IF \E p \in 1..Len(CityPatterns) : CityPatterns[p].city = gemeente
    THEN LET pattern == CityPatterns[CHOOSE p \in 1..Len(CityPatterns) :
                                         CityPatterns[p].city = gemeente]
             keys == CandidateKeys(pattern.pairs)
             hits == {k \in 1..Len(keys) : HasKey(zones, keys[k])}
         IN  IF hits = {} THEN None
             ELSE LET k == CHOOSE h \in hits : \A o \in hits : h >= o
                  IN  WithMethod(Lookup(zones, keys[k]), "city_heuristics")
    ELSE None

\* NPRZoneService._find_zone_by_city_heuristics
FindZoneByCityHeuristics(zones, gemeente) ==
    IF \E p \in 1..Len(CityPatterns) : CityPatterns[p].city = gemeente
    THEN LET pattern == CityPatterns[CHOOSE p \in 1..Len(CityPatterns) :
                                         CityPatterns[p].city = gemeente]
             keys == CandidateKeys(pattern.pairs)
             hits == {k \in 1..Len(keys) : HasKey(zones, keys[k])}
         IN  IF hits = {} THEN None
             ELSE LET k == CHOOSE h \in hits : \A o \in hits : h <= o
                  IN  WithMethod(Lookup(zones, keys[k]), "city_heuristics")
    ELSE None

\* a variant without the cache check
FindBestZoneForPostcode_NoCacheLookup(zones, cache, postcode, adres_data) ==
    LET postcode_clean == Upper(RemoveSpaces(postcode))
        gemeente  == Lower(adres_data.gemeente)
        cache_key == postcode_clean \o <<"_">> \o gemeente
        by_city   == FindZoneByCityHeuristics(zones, gemeente)
        popular   == FindMostPopularZone(zones)
        base      == [raised |-> FALSE, zone |-> None, cache |-> cache, cache_key |-> cache_key,
                      cache_hit |-> FALSE, ran_heuristics |-> FALSE, ran_most_popular |-> FALSE]
    IN  IF adres_data.gemeente = NoneStr
        THEN [base EXCEPT !.raised = TRUE, !.cache_key = NoneStr]
        ELSE IF by_city # None
        THEN LET best_zone == [by_city EXCEPT !.detection_method = "city_heuristics"]
             IN  [base EXCEPT !.zone = best_zone, !.ran_heuristics = TRUE,
                              !.cache = (cache_key :> best_zone) @@ cache]
        ELSE IF popular # None
        THEN LET best_zone == [popular EXCEPT !.detection_method = "most_popular"]
             IN  [base EXCEPT !.zone = best_zone, !.ran_heuristics = TRUE,
                              !.ran_most_popular = TRUE,
                              !.cache = (cache_key :> best_zone) @@ cache]
        ELSE [base EXCEPT !.ran_heuristics = TRUE, !.ran_most_popular = TRUE]

\* a variant that stores the most popular zone for a heuristic hit
FindBestZoneForPostcode_CachesPopular(zones, cache, postcode, adres_data) ==
    LET postcode_clean == Upper(RemoveSpaces(postcode))
        gemeente  == Lower(adres_data.gemeente)
        cache_key == postcode_clean \o <<"_">> \o gemeente
        by_city   == FindZoneByCityHeuristics(zones, gemeente)
        popular   == FindMostPopularZone(zones)
        base      == [raised |-> FALSE, zone |-> None, cache |-> cache, cache_key |-> cache_key,
                      cache_hit |-> FALSE, ran_heuristics |-> FALSE, ran_most_popular |-> FALSE]
    IN  IF adres_data.gemeente = NoneStr
        THEN [base EXCEPT !.raised = TRUE, !.cache_key = NoneStr]
        ELSE IF cache_key \in DOMAIN cache
        THEN [base EXCEPT !.zone = cache[cache_key], !.cache_hit = TRUE]
        ELSE IF by_city # None
        THEN LET best_zone == [by_city EXCEPT !.detection_method = "city_heuristics"]
             IN  [base EXCEPT !.zone = best_zone, !.ran_heuristics = TRUE,
                              !.cache = (cache_key :> popular) @@ cache]
        ELSE IF popular # None
        THEN LET best_zone == [popular EXCEPT !.detection_method = "most_popular"]
             IN  [base EXCEPT !.zone = best_zone, !.ran_heuristics = TRUE,
                              !.ran_most_popular = TRUE,
                              !.cache = (cache_key :> best_zone) @@ cache]
        ELSE [base EXCEPT !.ran_heuristics = TRUE, !.ran_most_popular = TRUE]

\* NPRZoneService._find_best_zone_for_postcode. The result holds the returned
\* zone, the cache afterwards and the path taken; raised means the call left
\* through an exception (gemeente is None: None has no lower()).
FindBestZoneForPostcode(zones, cache, postcode, adres_data) ==
    LET postcode_clean == Upper(RemoveSpaces(postcode))
        gemeente  == Lower(adres_data.gemeente)
        cache_key == postcode_clean \o <<"_">> \o gemeente
        by_city   == FindZoneByCityHeuristics(zones, gemeente)
        popular   == FindMostPopularZone(zones)
        base      == [raised |-> FALSE, zone |-> None, cache |-> cache, cache_key |-> cache_key,
                      cache_hit |-> FALSE, ran_heuristics |-> FALSE, ran_most_popular |-> FALSE]
    IN  IF adres_data.gemeente = NoneStr
        THEN [base EXCEPT !.raised = TRUE, !.cache_key = NoneStr]
        ELSE IF cache_key \in DOMAIN cache
        THEN [base EXCEPT !.zone = cache[cache_key], !.cache_hit = TRUE]
        ELSE IF by_city # None
        THEN LET best_zone == [by_city EXCEPT !.detection_method = "city_heuristics"]
             IN  [base EXCEPT !.zone = best_zone, !.ran_heuristics = TRUE,
                              !.cache = (cache_key :> best_zone) @@ cache]
        ELSE IF popular # None
        THEN LET best_zone == [popular EXCEPT !.detection_method = "most_popular"]
             IN  [base EXCEPT !.zone = best_zone, !.ran_heuristics = TRUE,
                              !.ran_most_popular = TRUE,
                              !.cache = (cache_key :> best_zone) @@ cache]
        ELSE [base EXCEPT !.ran_heuristics = TRUE, !.ran_most_popular = TRUE]

\* a variant in which a writer that finds the key already stored keeps the
\* most popular zone instead of the zone of the heuristic
ResolveMiss_LoserTakesPopular(zones, cache, cache_key, gemeente) ==
    LET by_city == IF cache_key \in DOMAIN cache THEN None
                   ELSE FindZoneByCityHeuristics(zones, gemeente)
        popular == FindMostPopularZone(zones)
    IN  IF by_city # None
        THEN LET best_zone == [by_city EXCEPT !.detection_method = "city_heuristics"]
             IN  [zone |-> best_zone, cache |-> (cache_key :> best_zone) @@ cache]
        ELSE IF popular # None
        THEN LET best_zone == [popular EXCEPT !.detection_method = "most_popular"]
             IN  [zone |-> best_zone, cache |-> (cache_key :> best_zone) @@ cache]
        ELSE [zone |-> None, cache |-> cache]

\* _find_best_zone_for_postcode after a failed cache check: the two strategies
\* and the store of the zone found. The strategies read the catalog only, so
\* the store is the one access to shared state
ResolveMiss(zones, cache, cache_key, gemeente) ==
    LET by_city == FindZoneByCityHeuristics(zones, gemeente)
        popular == FindMostPopularZone(zones)
    IN  IF by_city # None
        THEN LET best_zone == [by_city EXCEPT !.detection_method = "city_heuristics"]
             IN  [zone |-> best_zone, cache |-> (cache_key :> best_zone) @@ cache]
        ELSE IF popular # None
        THEN LET best_zone == [popular EXCEPT !.detection_method = "most_popular"]
             IN  [zone |-> best_zone, cache |-> (cache_key :> best_zone) @@ cache]
        ELSE [zone |-> None, cache |-> cache]

Onbekend == <<"O","n","b","e","k","e","n","d">>

\* the dict get_zone_by_address returns for a zone
ZoneResult(zone_info, adres, coordinates, method) ==
    [zone_id |-> zone_info.zone_id,
     zone_naam |-> zone_info.zone_naam,
     area_manager_id |-> zone_info.area_manager_id,
     fare_calculation_code |-> zone_info.fare_calculation_code,
     adres |-> adres,
     coordinates |-> coordinates,
     detection_method |-> method]

\* a variant whose except branch gives up
ErrorFallback_ReturnsNone(zones, cache, cache_key) ==
    [result |-> None,
     cache |-> cache, cache_key |-> cache_key, cache_hit |-> FALSE,
     ran_heuristics |-> FALSE, ran_most_popular |-> FALSE,
     ran_fallback |-> TRUE, error_path |-> TRUE]

\* a variant whose except branch stores the zone it returns in the cache
ErrorFallback_CachesResult(zones, cache, cache_key) ==
    LET zone_info == GetFallbackZone(zones)
    IN  [result |-> IF zone_info # None
                    THEN ZoneResult(zone_info,
                             [straatnaam |-> Onbekend, woonplaats |-> Onbekend,
                              gemeente |-> Lower(Onbekend)],
                             None, "error_fallback")
                    ELSE None,
         cache |-> IF zone_info # None
                   THEN (cache_key :> [zone_info EXCEPT !.detection_method = "error_fallback"])
                            @@ cache
                   ELSE cache,
         cache_key |-> cache_key, cache_hit |-> FALSE,
         ran_heuristics |-> FALSE, ran_most_popular |-> FALSE,
         ran_fallback |-> TRUE, error_path |-> TRUE]

\* the except branch of get_zone_by_address
ErrorFallback(zones, cache, cache_key) ==
    LET zone_info == GetFallbackZone(zones)
    IN  [result |-> IF zone_info # None
                    THEN ZoneResult(zone_info,
                             [straatnaam |-> Onbekend, woonplaats |-> Onbekend,
                              gemeente |-> Lower(Onbekend)],
                             None, "error_fallback")
                    ELSE None,
         cache |-> cache, cache_key |-> cache_key, cache_hit |-> FALSE,
         ran_heuristics |-> FALSE, ran_most_popular |-> FALSE,
         ran_fallback |-> TRUE, error_path |-> TRUE]

\* Which dict an assignment writes to. zone_info.copy() makes a new dict, which
\* is no entry of the catalog; the variant hands out the catalog's own dict
DictCopy_SameDict(zones, i) == [catalog_entry |-> TRUE, index |-> i]

DictCopy(zones, i) == [catalog_entry |-> FALSE, index |-> i]

\* the catalog after obj['detection_method'] = method
SetDetectionMethod(zones, obj, method) ==
    IF obj.catalog_entry
    THEN [i \in 1..Len(zones) |->
             IF i = obj.index THEN WithMethod(zones[i], method) ELSE zones[i]]
    ELSE zones

\* the catalog after the get_zone_by_address call with outcome r. A cache hit
\* returns the stored dict and assigns nothing; every other path copies the
\* zone it found (lines 156, 219) and assigns detection_method to the copy
\* (lines 157, 220, then 178 or 185)
CatalogAfterResolve(zones, r) ==
    IF r.result = None \/ r.cache_hit THEN zones
    ELSE LET obj == DictCopy(zones, CHOOSE i \in 1..Len(zones) :
                                        zones[i].zone_id = r.result.zone_id)
         IN  IF r.error_path
             THEN SetDetectionMethod(zones, obj, "fallback_most_popular")
             ELSE IF r.ran_most_popular
             THEN SetDetectionMethod(
                      SetDetectionMethod(zones, obj, "fallback_most_popular"),
                      obj, "most_popular")
             ELSE SetDetectionMethod(zones, obj, "city_heuristics")

\* NPRZoneService.get_zone_by_address(postcode, ...), with the outcome bag of
\* bag_service.get_adres_by_postcode_huisnummer: it raises, returns None, or
\* returns an address dict (whose gemeente may be None)
GetZoneByAddressResult(zones, cache, postcode, bag) ==
    LET postcode_clean   == Upper(RemoveSpaces(postcode))
        postcode_cijfers == Prefix(postcode_clean, 4)
        no_bag     == bag.kind # "adres"
        adres_data == IF no_bag
                      THEN [straatnaam |-> Onbekend,
                            woonplaats |-> GuessCityFromPostcode(postcode_cijfers),
                            gemeente |-> Lower(GuessCityFromPostcode(postcode_cijfers)),
                            coordinates |-> None]
                      ELSE bag.adres
        found      == FindBestZoneForPostcode(zones, cache, postcode_clean, adres_data)
        fallback   == GetFallbackZone(zones)
        zone_info  == IF found.zone # None THEN found.zone ELSE fallback
    IN  IF no_bag /\ GuessCityRaises(postcode_cijfers)
        THEN ErrorFallback(zones, cache, NoneStr)
        ELSE IF found.raised
        THEN ErrorFallback(zones, found.cache, found.cache_key)
        ELSE [result |-> IF zone_info # None
                         THEN ZoneResult(zone_info, adres_data, adres_data.coordinates,
                                         zone_info.detection_method)
                         ELSE None,
              cache |-> found.cache, cache_key |-> found.cache_key,
              cache_hit |-> found.cache_hit,
              ran_heuristics |-> found.ran_heuristics,
              ran_most_popular |-> found.ran_most_popular,
              ran_fallback |-> (found.zone = None), error_path |-> FALSE]

(***************************************************************************)
(* Fare engine: NPRTariefService                                           *)
(***************************************************************************)
\* the bracket end that stands for "unbounded"
UnboundedEnd == 999999

SecondsPerMinute == 60
SecondsPerDay == 86400
EpochDate == 20240101

\* datetime.strftime("%Y%m%d"), for a time within January 2024
StrftimeYmd(t) == IntToStr(EpochDate + (t \div SecondsPerDay))

\* int(x / SecondsPerMinute): truncation towards zero
TruncMinutes(seconds) ==
    IF seconds >= 0 THEN seconds \div SecondsPerMinute
    ELSE -((-seconds) \div SecondsPerMinute)

\* a variant whose validity window excludes the end date
IsDateInRange_EndExclusive(check_date, start_date, end_date) ==
    IF IsIntLiteral(check_date) /\ IsIntLiteral(start_date) /\ IsIntLiteral(end_date)
    THEN StrToInt(start_date) <= StrToInt(check_date)
         /\ StrToInt(check_date) < StrToInt(end_date)
    ELSE FALSE

\* utils.date_utils.is_date_in_range: a ValueError of int() gives False
IsDateInRange(check_date, start_date, end_date) ==
    IF IsIntLiteral(check_date) /\ IsIntLiteral(start_date) /\ IsIntLiteral(end_date)
    THEN StrToInt(start_date) <= StrToInt(check_date)
         /\ StrToInt(check_date) <= StrToInt(end_date)
    ELSE FALSE

\* TariefPart(...) of one row
TariefPart(row) ==
    [area_manager_id |-> row.AreaManagerId,
     fare_calculation_code |-> row.FareCalculationCode,
     start_date |-> IntToStr(row.StartDateFarePart),
     end_date |-> IntToStr(row.EndDateFarePart),
     start_duration |-> row.StartDurationFarePart,
     end_duration |-> row.EndDurationFarePart,
     amount |-> row.AmountFarePart,
     step_size |-> row.StepSizeFarePart,
     cumulative_amount |-> row.AmountCumulative]

\* list.sort(key=lambda x: x.start_duration): stable insertion of part into a
\* sorted list, behind every part whose start is not larger
RECURSIVE InsertByStart(_, _)
InsertByStart(sorted, part) ==
    IF Len(sorted) = 0 THEN <<part>>
    ELSE IF sorted[Len(sorted)].start_duration <= part.start_duration
    THEN Append(sorted, part)
    ELSE Append(InsertByStart(SubSeq(sorted, 1, Len(sorted) - 1), part), sorted[Len(sorted)])

RECURSIVE SortByStart(_)
SortByStart(parts) ==
    IF Len(parts) = 0 THEN <<>>
    ELSE InsertByStart(SortByStart(SubSeq(parts, 1, Len(parts) - 1)), parts[Len(parts)])

\* NPRTariefService._get_tarief_parts
GetTariefParts(rows, area_manager_id, fare_calculation_code, calc_date) ==
    LET zone_data == SelectSeq(rows, LAMBDA row :
                              /\ row.AreaManagerId = area_manager_id
                              /\ row.FareCalculationCode # NaN
                              /\ row.FareCalculationCode = fare_calculation_code)
        valid == SelectSeq(zone_data, LAMBDA row :
                              IsDateInRange(calc_date, IntToStr(row.StartDateFarePart),
                                            IntToStr(row.EndDateFarePart)))
    IN  SortByStart([i \in 1..Len(valid) |-> TariefPart(valid[i])])

\* a variant that rounds the number of steps down
CalculatePartCost_StepsRoundedDown(part, minutes) ==
    IF minutes <= 0 THEN 0
    ELSE IF part.step_size = 0 THEN 0
    ELSE (minutes \div part.step_size) * part.amount + part.cumulative_amount

\* NPRTariefService._calculate_part_cost; a step size of 0 raises
\* ZeroDivisionError, which the method turns into 0.0
CalculatePartCost(part, minutes) ==
    IF minutes <= 0 THEN 0
    ELSE IF part.step_size = 0 THEN 0
    ELSE ((minutes + part.step_size - 1) \div part.step_size) * part.amount
         + part.cumulative_amount

Min(a, b) == IF a <= b THEN a ELSE b
Max(a, b) == IF a >= b THEN a ELSE b

Minuten == <<"m","i","n","u","t","e","n">>

\* a variant of the loop that bills a bracket the stay has not reached yet
\* instead of passing over it
RECURSIVE WalkParts_BillsUnreached(_, _, _, _)
WalkParts_BillsUnreached(tarief_parts, duration_minutes, i, acc) ==
    IF i > Len(tarief_parts) \/ acc.remaining_duration <= 0 THEN acc
    ELSE LET part == tarief_parts[i]
             consumed == duration_minutes - acc.remaining_duration
             minutes_in_part ==
                 Min(acc.remaining_duration,
                     part.end_duration - Max(part.start_duration, consumed))
             part_cost == CalculatePartCost(part, minutes_in_part)
             step == [part |-> i, remaining |-> acc.remaining_duration,
                      skipped |-> consumed < part.start_duration,
                      minutes |-> IF minutes_in_part > 0 THEN minutes_in_part ELSE 0]
         IN  IF minutes_in_part > 0
             THEN WalkParts_BillsUnreached(tarief_parts, duration_minutes, i + 1,
                      [total_cost |-> acc.total_cost + part_cost,
                       remaining_duration |-> acc.remaining_duration - minutes_in_part,
                       tarief_info |->
                           IF acc.tarief_info.tarief_per_eenheid = 0
                           THEN [tarief_per_eenheid |-> part.amount,
                                 eenheid |-> IntToStr(part.step_size) \o <<" ">> \o Minuten]
                           ELSE acc.tarief_info,
                       billed |-> Append(acc.billed,
                                      [part |-> i, minutes |-> minutes_in_part,
                                       cost |-> part_cost, tail |-> FALSE]),
                       steps |-> Append(acc.steps, step)])
             ELSE WalkParts_BillsUnreached(tarief_parts, duration_minutes, i + 1,
                      [acc EXCEPT !.steps = Append(acc.steps, step)])

\* a variant of the loop that gives a bracket all the minutes between the
\* point reached and its end, without capping them by the remaining duration
RECURSIVE WalkParts_Uncapped(_, _, _, _)
WalkParts_Uncapped(tarief_parts, duration_minutes, i, acc) ==
    IF i > Len(tarief_parts) \/ acc.remaining_duration <= 0 THEN acc
    ELSE LET part == tarief_parts[i]
             consumed == duration_minutes - acc.remaining_duration
             minutes_in_part == part.end_duration - Max(part.start_duration, consumed)
             part_cost == CalculatePartCost(part, minutes_in_part)
             step == [part |-> i, remaining |-> acc.remaining_duration,
                      skipped |-> consumed < part.start_duration,
                      minutes |-> IF consumed >= part.start_duration /\ minutes_in_part > 0
                                  THEN minutes_in_part ELSE 0]
         IN  IF consumed < part.start_duration
             THEN WalkParts_Uncapped(tarief_parts, duration_minutes, i + 1,
                      [acc EXCEPT !.steps = Append(acc.steps, step)])
             ELSE IF minutes_in_part > 0
             THEN WalkParts_Uncapped(tarief_parts, duration_minutes, i + 1,
                      [total_cost |-> acc.total_cost + part_cost,
                       remaining_duration |-> acc.remaining_duration - minutes_in_part,
                       tarief_info |->
                           IF acc.tarief_info.tarief_per_eenheid = 0
                           THEN [tarief_per_eenheid |-> part.amount,
                                 eenheid |-> IntToStr(part.step_size) \o <<" ">> \o Minuten]
                           ELSE acc.tarief_info,
                       billed |-> Append(acc.billed,
                                      [part |-> i, minutes |-> minutes_in_part,
                                       cost |-> part_cost, tail |-> FALSE]),
                       steps |-> Append(acc.steps, step)])
             ELSE WalkParts_Uncapped(tarief_parts, duration_minutes, i + 1,
                      [acc EXCEPT !.steps = Append(acc.steps, step)])

\* the loop of _calculate_total_cost from part i on. acc holds total_cost,
\* remaining_duration and tarief_info, and two records of what the loop did:
\* billed, the (part index, minutes, cost) of every _calculate_part_cost call
\* made, in call order, and steps, one entry for every iteration that got past
\* the break test, with the remaining duration it started from, whether it
\* took the continue, and the minutes it attributed to the bracket.
RECURSIVE WalkParts(_, _, _, _)
WalkParts(tarief_parts, duration_minutes, i, acc) ==
    IF i > Len(tarief_parts) \/ acc.remaining_duration <= 0 THEN acc
    ELSE LET part == tarief_parts[i]
             consumed == duration_minutes - acc.remaining_duration
             minutes_in_part ==
                 Min(acc.remaining_duration,
                     part.end_duration - Max(part.start_duration, consumed))
             part_cost == CalculatePartCost(part, minutes_in_part)
             step == [part |-> i, remaining |-> acc.remaining_duration,
                      skipped |-> consumed < part.start_duration,
                      minutes |-> IF consumed >= part.start_duration /\ minutes_in_part > 0
                                  THEN minutes_in_part ELSE 0]
         IN  IF consumed < part.start_duration
             THEN WalkParts(tarief_parts, duration_minutes, i + 1,
                      [acc EXCEPT !.steps = Append(acc.steps, step)])
             ELSE IF minutes_in_part > 0
             THEN WalkParts(tarief_parts, duration_minutes, i + 1,
                      [total_cost |-> acc.total_cost + part_cost,
                       remaining_duration |-> acc.remaining_duration - minutes_in_part,
                       tarief_info |->
                           IF acc.tarief_info.tarief_per_eenheid = 0
                           THEN [tarief_per_eenheid |-> part.amount,
                                 eenheid |-> IntToStr(part.step_size) \o <<" ">> \o Minuten]
                           ELSE acc.tarief_info,
                       billed |-> Append(acc.billed,
                                      [part |-> i, minutes |-> minutes_in_part,
                                       cost |-> part_cost, tail |-> FALSE]),
                       steps |-> Append(acc.steps, step)])
             ELSE WalkParts(tarief_parts, duration_minutes, i + 1,
                      [acc EXCEPT !.steps = Append(acc.steps, step)])

\* a variant whose tail assigns the total instead of adding to it
CalculateTotalCost_TailOverwrites(tarief_parts, duration_minutes) ==
    LET start == [total_cost |-> 0, remaining_duration |-> duration_minutes,
                  tarief_info |-> [tarief_per_eenheid |-> 0, eenheid |-> Minuten],
                  billed |-> <<>>, steps |-> <<>>]
        walked == WalkParts(tarief_parts, duration_minutes, 1, start)
        last_part == tarief_parts[Len(tarief_parts)]
        part_cost == CalculatePartCost(last_part, walked.remaining_duration)
    IN  IF walked.remaining_duration > 0 /\ Len(tarief_parts) > 0
           /\ last_part.end_duration = UnboundedEnd
        THEN [walked EXCEPT !.total_cost = part_cost,
                            !.billed = Append(walked.billed,
                                [part |-> Len(tarief_parts),
                                 minutes |-> walked.remaining_duration,
                                 cost |-> part_cost, tail |-> TRUE])]
        ELSE walked

\* a variant whose tail looks at the first bracket instead of the last
CalculateTotalCost_TailOnFirst(tarief_parts, duration_minutes) ==
    LET start == [total_cost |-> 0, remaining_duration |-> duration_minutes,
                  tarief_info |-> [tarief_per_eenheid |-> 0, eenheid |-> Minuten],
                  billed |-> <<>>, steps |-> <<>>]
        walked == WalkParts(tarief_parts, duration_minutes, 1, start)
        last_part == tarief_parts[1]
        part_cost == CalculatePartCost(last_part, walked.remaining_duration)
    IN  IF walked.remaining_duration > 0 /\ Len(tarief_parts) > 0
           /\ last_part.end_duration = UnboundedEnd
        THEN [walked EXCEPT !.total_cost = walked.total_cost + part_cost,
                            !.billed = Append(walked.billed,
                                [part |-> 1,
                                 minutes |-> walked.remaining_duration,
                                 cost |-> part_cost, tail |-> TRUE])]
        ELSE walked

\* a variant whose tail bills the leftover minutes with the last bracket whether
\* or not that bracket is unbounded
CalculateTotalCost_TailAlways(tarief_parts, duration_minutes) ==
    LET start == [total_cost |-> 0, remaining_duration |-> duration_minutes,
                  tarief_info |-> [tarief_per_eenheid |-> 0, eenheid |-> Minuten],
                  billed |-> <<>>, steps |-> <<>>]
        walked == WalkParts(tarief_parts, duration_minutes, 1, start)
        last_part == tarief_parts[Len(tarief_parts)]
        part_cost == CalculatePartCost(last_part, walked.remaining_duration)
    IN  IF walked.remaining_duration > 0 /\ Len(tarief_parts) > 0
        THEN [walked EXCEPT !.total_cost = walked.total_cost + part_cost,
                            !.billed = Append(walked.billed,
                                [part |-> Len(tarief_parts),
                                 minutes |-> walked.remaining_duration,
                                 cost |-> part_cost, tail |-> TRUE])]
        ELSE walked

\* NPRTariefService._calculate_total_cost
CalculateTotalCost(tarief_parts, duration_minutes) ==
    LET start == [total_cost |-> 0, remaining_duration |-> duration_minutes,
                  tarief_info |-> [tarief_per_eenheid |-> 0, eenheid |-> Minuten],
                  billed |-> <<>>, steps |-> <<>>]
        walked == WalkParts(tarief_parts, duration_minutes, 1, start)
        last_part == tarief_parts[Len(tarief_parts)]
        part_cost == CalculatePartCost(last_part, walked.remaining_duration)
    IN  IF walked.remaining_duration > 0 /\ Len(tarief_parts) > 0
           /\ last_part.end_duration = UnboundedEnd
        THEN [walked EXCEPT !.total_cost = walked.total_cost + part_cost,
                            !.billed = Append(walked.billed,
                                [part |-> Len(tarief_parts),
                                 minutes |-> walked.remaining_duration,
                                 cost |-> part_cost, tail |-> TRUE])]
        ELSE walked

\* round(x, 2) of x eighths of a euro, in cents: x * 12.5, a tie going to the
\* even cent
Round2(eighths) ==
    LET q == (eighths * 25) \div 2
    IN  IF (eighths * 25) % 2 = 0 THEN q
        ELSE IF q % 2 = 0 THEN q ELSE q + 1

\* a variant that lets a duration of 0 minutes through
NotBillable_OnlyNegative(duration_minutes) == duration_minutes < 0

\* the test of bereken_kosten on the duration: such a duration is not billed
NotBillable(duration_minutes) == duration_minutes <= 0

\* tarief_parts[:3] as the details list
Details(tarief_parts) ==
    [i \in 1..Min(3, Len(tarief_parts)) |->
        [start_duration |-> tarief_parts[i].start_duration,
         end_duration |-> tarief_parts[i].end_duration,
         amount_per_step |-> tarief_parts[i].amount,
         step_size_minutes |-> tarief_parts[i].step_size]]

\* NPRTariefService.bereken_kosten(zone_info, start_tijd, eind_tijd): the value
\* returned, and in walk what _calculate_total_cost did (None: it was not called).
\* zone_info None raises on zone_info['area_manager_id'] and gives None.
BerekenKostenResult(rows, zone_info, start_tijd, eind_tijd) ==
    LET duration_minutes == TruncMinutes(eind_tijd - start_tijd)
        calc_date == StrftimeYmd(start_tijd)
        tarief_parts == GetTariefParts(rows, zone_info.area_manager_id,
                                       zone_info.fare_calculation_code, calc_date)
        walk == CalculateTotalCost(tarief_parts, duration_minutes)
        absent == [result |-> None, walk |-> None, tarief_parts |-> <<>>]
    IN  IF zone_info = None THEN absent
        ELSE IF NotBillable(duration_minutes) THEN absent
        ELSE IF Len(tarief_parts) = 0 THEN absent
        ELSE [result |-> [duur_minuten |-> duration_minutes,
                          totaal_kosten |-> Round2(walk.total_cost),
                          details |-> Details(tarief_parts),
                          tarief_info |-> walk.tarief_info],
              walk |-> walk,
              tarief_parts |-> tarief_parts]

\* NPRTariefService.get_tarief_structuur(zone_info), called at time now: the
\* brackets valid on the date of now; zone_info None raises and gives None
GetTariefStructuur(rows, zone_info, now) ==
    LET calc_date == StrftimeYmd(now)
        tarief_parts == GetTariefParts(rows, zone_info.area_manager_id,
                                       zone_info.fare_calculation_code, calc_date)
    IN  IF zone_info = None THEN None
        ELSE IF Len(tarief_parts) = 0 THEN None
        ELSE [zone_id |-> zone_info.zone_id,
              zone_naam |-> zone_info.zone_naam,
              tarieven |-> [i \in 1..Len(tarief_parts) |->
                               [start_duration |-> tarief_parts[i].start_duration,
                                end_duration |-> tarief_parts[i].end_duration,
                                amount |-> tarief_parts[i].amount,
                                step_size |-> tarief_parts[i].step_size,
                                cumulative_amount |-> tarief_parts[i].cumulative_amount]],
              geldig_van |-> calc_date,
              geldig_tot |-> <<"9","9","9","9","1","2","3","1">>]

(***************************************************************************)
(* Datasets                                                                *)
(***************************************************************************)
\* the YYYYMMDD number of a day of January 2024
Jan(day) == EpochDate - 1 + day
Jan01 == Jan(1)
Jan02 == Jan(2)
Jan31 == Jan(31)

C34_TAR01 == <<"3","4","_","T","A","R","0","1">>
C34_TAR02 == <<"3","4","_","T","A","R","0","2">>
CodeX == <<"X">>

\* the scenario of the specification: zone 14_TAR01, [0,60) step 15 at 1.00 and
\* an unbounded tail [60,999999) step 30 at 1.50
ExampleTable ==
    << Row(14, TAR01, Jan01, Jan31, 60, UnboundedEnd, 12, 30, 0),
       Row(14, TAR01, Jan01, Jan31, 0, 60, 8, 15, 0) >>

\* two zones; 14_TAR01 changes its prices after Jan 1 and has no bracket valid
\* on Jan 3; one row has no fare code
DatedTable ==
    << Row(34, C34_TAR01, Jan01, Jan31, 0, UnboundedEnd, 3, 2, 0),
       Row(14, TAR01, Jan01, Jan01, 0, 2, 8, 1, 0),
       Row(14, TAR01, Jan01, Jan01, 2, UnboundedEnd, 12, 2, 5),
       Row(14, TAR01, Jan02, Jan02, 0, 3, 3, 1, 1),
       Row(14, NaN, Jan01, Jan31, 0, UnboundedEnd, 8, 1, 0),
       Row(14, TAR01, Jan02, Jan02, 3, 5, 8, 2, 0) >>

\* four zones of the city table; 14_TAR02 and 34_34_TAR01 tie for the most rows
CityTable ==
    << Row(34, C34_TAR01, Jan01, Jan31, 0, 2, 8, 1, 0),
       Row(34, C34_TAR01, Jan01, Jan31, 2, UnboundedEnd, 12, 2, 0),
       Row(17, GAR01, Jan01, Jan31, 0, UnboundedEnd, 8, 1, 0),
       Row(14, TAR02, Jan01, Jan31, 0, 2, 8, 1, 0),
       Row(14, TAR02, Jan01, Jan31, 2, UnboundedEnd, 12, 2, 0),
       Row(14, TAR01, Jan01, Jan31, 0, UnboundedEnd, 8, 1, 0) >>

\* no zone of Amsterdam; Rotterdam only has its second candidate pair; the zone
\* with the most rows comes last in the file
OtherTable ==
    << Row(5, PR01, Jan01, Jan31, 0, UnboundedEnd, 8, 1, 0),
       Row(99, CodeX, Jan01, Jan31, 0, 2, 8, 1, 0),
       Row(99, NaN, Jan01, Jan31, 0, 2, 8, 1, 0),
       Row(99, CodeX, Jan01, Jan31, 2, 4, 8, 1, 0),
       Row(99, CodeX, Jan01, Jan31, 4, UnboundedEnd, 8, 1, 0) >>

\* equal counts everywhere, file order opposite to the grouping order
TiedTable ==
    << Row(34, C34_TAR02, Jan01, Jan31, 0, UnboundedEnd, 8, 1, 0),
       Row(14, TAR03, Jan01, Jan31, 0, UnboundedEnd, 8, 1, 0),
       Row(3, PR01, Jan01, Jan31, 0, UnboundedEnd, 8, 1, 0) >>

\* a dataset file with a header and no rows
EmptyTable == <<>>

\* the datasets of the resolver specification
ZoneTables == {EmptyTable, ExampleTable, DatedTable, CityTable, OtherTable, TiedTable}

\* generated bracket sets: every file of 1..MaxParts rows of one zone whose
\* brackets come from GenIntervals and GenPrices, all valid on Jan 1 only
MaxParts == 2
\* the longest duration asked for, in minutes (besides the long ones below)
MaxMinutes == 6

GenIntervals == { <<0, 2>>, <<0, 4>>, <<0, UnboundedEnd>>,
                  <<2, 4>>, <<2, UnboundedEnd>>, <<3, UnboundedEnd>> }
GenPrices == { [amount |-> 8, step |-> 1, cumulative |-> 0],
               [amount |-> 3, step |-> 2, cumulative |-> 5] }
GenRows == { Row(14, TAR01, Jan01, Jan01, iv[1], iv[2], pr.amount, pr.step, pr.cumulative) :
                 iv \in GenIntervals, pr \in GenPrices }

GeneratedTables == UNION { [1..n -> GenRows] : n \in 1..MaxParts }

FareTables == GeneratedTables \cup {EmptyTable, ExampleTable, DatedTable}

\* start times: noon of Jan 1, one second before midnight of Jan 1, noon of
\* Jan 3
StartTimes == { 12 * 3600, SecondsPerDay - 1, 2 * SecondsPerDay + 12 * 3600 }

\* eind_tijd - start_tijd in seconds
Deltas == {-60, -30, 0, 30, 59, 90} \cup { SecondsPerMinute * m : m \in 1..MaxMinutes }
LongDeltas == { SecondsPerMinute * 90, SecondsPerMinute * (UnboundedEnd + 2) }

\* a zone_info that is in no dataset
UnknownZone == [area_manager_id |-> 77, fare_calculation_code |-> CodeX,
                zone_id |-> ZoneKey(77, CodeX), zone_naam |-> ZoneNaam(77, CodeX),
                record_count |-> 1]

(***************************************************************************)
(* Inputs of the resolver                                                  *)
(***************************************************************************)
Postcodes == { <<"1","0","1","2"," ","j","s">>, <<"3","0","1","1","A","B">>,
               <<"8","0","1","1","a","a">>, <<"1","2","A","B">> }

BagAdres(gemeente) ==
    [kind |-> "adres",
     adres |-> [straatnaam |-> <<"D","a","m">>, woonplaats |-> gemeente,
                gemeente |-> gemeente, coordinates |-> None]]

BagOutcomes == { [kind |-> "raises"], [kind |-> "none"],
                 BagAdres(<<"A","m","s","t","e","r","d","a","m">>), BagAdres(NoneStr) }

\* the number of request threads that may be inside get_zone_by_address
MaxThreads == 2
RaceThreads == 1..MaxThreads

\* a thread that has not entered get_zone_by_address
Idle == [pc |-> "idle"]

(***************************************************************************)
(* Specifications                                                          *)
(***************************************************************************)
InitWith(tables) ==
    /\ tarief_data \in tables
    /\ available_zones = LoadAllNprZones(tarief_data)
    /\ postcode_to_zone_cache = <<>>
    /\ zone_call = None
    /\ kosten_call = None
    /\ watched = None
    /\ threads = [t \in RaceThreads |-> Idle]
    /\ api_call = None

\* the record kept of a get_zone_by_address call: its input, the value returned
\* and the path taken
ZoneCall(postcode, bag, r) ==
    [postcode |-> postcode, bag |-> bag, result |-> r.result,
     cache_key |-> r.cache_key, cache_hit |-> r.cache_hit,
     ran_heuristics |-> r.ran_heuristics, ran_most_popular |-> r.ran_most_popular,
     ran_fallback |-> r.ran_fallback, error_path |-> r.error_path]

\* one get_zone_by_address call
GetZoneByAddress(postcode, bag) ==
    /\ \E r \in {GetZoneByAddressResult(available_zones, postcode_to_zone_cache, postcode, bag)} :
           /\ zone_call' = ZoneCall(postcode, bag, r)
           /\ postcode_to_zone_cache' = r.cache
           /\ available_zones' = CatalogAfterResolve(available_zones, r)
    /\ UNCHANGED <<tarief_data, kosten_call, watched, threads, api_call>>

\* the same call, remembered by the observer
WatchGetZoneByAddress(postcode, bag) ==
    /\ watched = None
    /\ \E r \in {GetZoneByAddressResult(available_zones, postcode_to_zone_cache, postcode, bag)} :
           /\ zone_call' = ZoneCall(postcode, bag, r)
           /\ watched' = ZoneCall(postcode, bag, r)
           /\ postcode_to_zone_cache' = r.cache
           /\ available_zones' = CatalogAfterResolve(available_zones, r)
    /\ UNCHANGED <<tarief_data, kosten_call, threads, api_call>>

\* one bereken_kosten call; the engine keeps no state between calls, so a
\* behaviour follows a single call
BerekenKosten(zone_info, start_tijd, delta) ==
    /\ kosten_call = None
    /\ \E r \in {BerekenKostenResult(tarief_data, zone_info, start_tijd, start_tijd + delta)} :
           kosten_call' = [zone_info |-> zone_info, start_tijd |-> start_tijd,
                           eind_tijd |-> start_tijd + delta, result |-> r.result,
                           walk |-> r.walk, tarief_parts |-> r.tarief_parts]
    /\ UNCHANGED <<tarief_data, available_zones, postcode_to_zone_cache, zone_call, watched,
                 threads, api_call>>

ZoneInfos == {None, UnknownZone} \cup { available_zones[i] : i \in 1..Len(available_zones) }

Init == InitWith(ZoneTables)

Next == \E postcode \in Postcodes, bag \in BagOutcomes : GetZoneByAddress(postcode, bag)

Spec == Init /\ [][Next]_vars

NextWatch ==
    \/ \E postcode \in Postcodes, bag \in BagOutcomes : GetZoneByAddress(postcode, bag)
    \/ \E postcode \in Postcodes, bag \in BagOutcomes : WatchGetZoneByAddress(postcode, bag)

\* the datasets of the observed runs
WatchTables == {EmptyTable, CityTable}

InitWatch == InitWith(WatchTables)

SpecWatch == InitWatch /\ [][NextWatch]_vars

InitFare == InitWith(FareTables)

NextFare ==
    \E zone_info \in ZoneInfos, start_tijd \in StartTimes,
       delta \in Deltas \cup (IF tarief_data \in GeneratedTables THEN {} ELSE LongDeltas) :
        BerekenKosten(zone_info, start_tijd, delta)

SpecFare == InitFare /\ [][NextFare]_vars

(***************************************************************************)
(* The HTTP routes (routes/bereken.py)                                     *)
(***************************************************************************)
\* the q parameter of GET /zones/search
SearchTerms == { <<"u","t","r","e","c","h","t">>, <<"T","A","R">>, <<"t","a","r","0","1">>,
                 <<"3","4">>, <<"Z","o","n","e"," ","1">>, <<"4"," ","-"," ","3">>,
                 <<"x">>, <<>> }

ApiTables == {EmptyTable, DatedTable, CityTable}

\* GET /zones/search
SearchZones(search_term) ==
    /\ api_call' = IF search_term = <<>>
                   THEN [kind |-> "search", search_term |-> search_term, status |-> 400,
                         results |-> <<>>]
                   ELSE [kind |-> "search", search_term |-> search_term, status |-> 200,
                         results |-> SearchZonesByName(available_zones, search_term)]
    /\ UNCHANGED <<tarief_data, available_zones, postcode_to_zone_cache, zone_call,
                   kosten_call, watched, threads>>

\* GET /zones
GetZones ==
    /\ api_call' = [kind |-> "zones", status |-> 200,
                    body |-> GetAvailableZones(available_zones)]
    /\ UNCHANGED <<tarief_data, available_zones, postcode_to_zone_cache, zone_call,
                   kosten_call, watched, threads>>

\* the zone_id of GET /zones/<zone_id>/tarief
ZoneIds == { ZoneKey(14, TAR01), ZoneKey(34, C34_TAR01), ZoneKey(77, CodeX) }

\* datetime.now() when a request is served: noon of Jan 1, noon of Jan 3
Nows == { 12 * 3600, 2 * SecondsPerDay + 12 * 3600 }

\* GET /zones/<zone_id>/tarief
GetZoneTarief(zone_id, now) ==
    /\ \E zone_info \in {GetZoneById(available_zones, zone_id)} :
       \E tarief_structuur \in {GetTariefStructuur(tarief_data, zone_info, now)} :
           api_call' = [kind |-> "tarief", zone_id |-> zone_id, now |-> now,
                        status |-> IF zone_info = None \/ tarief_structuur = None
                                   THEN 404 ELSE 200,
                        body |-> tarief_structuur]
    /\ UNCHANGED <<tarief_data, available_zones, postcode_to_zone_cache, zone_call,
                   kosten_call, watched, threads>>

\* POST /bereken: bodies the route rejects before it looks at the address,
\* and well-formed bodies (huisnummer and the optional fields only travel to
\* the address lookup, whose outcome is the input bag)
ApiPostcodes == { <<"1","0","1","2"," ","j","s">>, <<"1","2","A","B">> }
ApiBags == { [kind |-> "none"], BagAdres(<<"A","m","s","t","e","r","d","a","m">>) }
ApiDeltas == { -60, 30, 2 * SecondsPerMinute, 90 * SecondsPerMinute }
Requests ==
    { [shape |-> "no_json"], [shape |-> "missing_field"], [shape |-> "bad_datetime"] }
    \cup { [shape |-> "ok", postcode |-> postcode, start_tijd |-> start_tijd,
            eind_tijd |-> start_tijd + delta] :
               postcode \in ApiPostcodes, start_tijd \in Nows, delta \in ApiDeltas }

\* utils.date_utils.validate_time_range
ValidateTimeRange(start_time, end_time) == start_time < end_time

\* a variant that computes the cost before it looks at the zone and the
\* tariff structure
KostenInvoked_BeforeChecks(zone_info, tarief_structuur) == TRUE

\* bereken_parkeerkosten reaches the bereken_kosten call: neither the zone
\* check (line 66) nor the tariff structure check (line 76) returned
KostenInvoked(zone_info, tarief_structuur) == zone_info # None /\ tarief_structuur # None

\* the request passes the checks of the body (lines 31-59)
Accepted(data) ==
    data.shape = "ok" /\ ValidateTimeRange(data.start_tijd, data.eind_tijd)

\* bereken_parkeerkosten after the body checks, given what the services return:
\* zone for get_zone_by_address, tarief_structuur for get_tarief_structuur and
\* kosten for bereken_kosten. The status answered and which of the services
\* the route called
BerekenParkeerkostenResult(data, bag, now, zone, tarief_structuur, kosten) ==
    IF KostenInvoked(zone.result, tarief_structuur)
    THEN [kind |-> "bereken", data |-> data, bag |-> bag, now |-> now,
          status |-> IF kosten = None THEN 500 ELSE 200,
          zone_info |-> zone.result, tarief_structuur |-> tarief_structuur,
          kosten |-> kosten, zone_called |-> TRUE, structuur_called |-> TRUE,
          kosten_called |-> TRUE]
    ELSE [kind |-> "bereken", data |-> data, bag |-> bag, now |-> now,
          status |-> 404,
          zone_info |-> zone.result, tarief_structuur |-> None,
          kosten |-> None, zone_called |-> TRUE,
          structuur_called |-> (zone.result # None),
          kosten_called |-> FALSE]

\* POST /bereken, with the address lookup outcome bag and the clock now
BerekenParkeerkosten(data, bag, now) ==
    /\ IF ~Accepted(data)
       THEN /\ api_call' = [kind |-> "bereken", data |-> data, status |-> 400,
                            zone_called |-> FALSE, structuur_called |-> FALSE,
                            kosten_called |-> FALSE]
            /\ UNCHANGED <<postcode_to_zone_cache, available_zones>>
       ELSE \E zone \in {GetZoneByAddressResult(available_zones, postcode_to_zone_cache,
                                                data.postcode, bag)} :
            \E tarief_structuur \in {GetTariefStructuur(tarief_data, zone.result, now)} :
            \E kosten \in {BerekenKostenResult(tarief_data, zone.result, data.start_tijd,
                                               data.eind_tijd).result} :
                /\ api_call' = BerekenParkeerkostenResult(data, bag, now, zone,
                                                          tarief_structuur, kosten)
                /\ postcode_to_zone_cache' = zone.cache
                /\ available_zones' = CatalogAfterResolve(available_zones, zone)
    /\ UNCHANGED <<tarief_data, zone_call, kosten_call, watched, threads>>

InitApi == InitWith(ApiTables)

NextApi ==
    \/ \E search_term \in SearchTerms : SearchZones(search_term)
    \/ GetZones
    \/ \E zone_id \in ZoneIds, now \in Nows : GetZoneTarief(zone_id, now)
    \/ \E data \in Requests, bag \in ApiBags, now \in Nows :
           BerekenParkeerkosten(data, bag, now)

SpecApi == InitApi /\ [][NextApi]_vars

(***************************************************************************)
(* Concurrent get_zone_by_address calls. A thread may be preempted between *)
(* any two accesses to postcode_to_zone_cache; a single dict operation     *)
(* (key in d, d[key], d[key] = value) is atomic. Everything else a call    *)
(* touches is local to it or is the catalog, which the call only reads.    *)
(***************************************************************************)
RacePostcodes == { <<"1","0","1","2"," ","j","s">>, <<"3","0","1","1","A","B">>,
                   <<"1","2","A","B">> }
RaceBags == { [kind |-> "none"], BagAdres(<<"A","m","s","t","e","r","d","a","m">>),
              BagAdres(NoneStr) }
RaceTables == {EmptyTable, CityTable, OtherTable}

\* the locals of a finished call
Done(postcode, bag, cache_key, result, cache_hit, error_path) ==
    [pc |-> "done", postcode |-> postcode, bag |-> bag, cache_key |-> cache_key,
     result |-> result, cache_hit |-> cache_hit, error_path |-> error_path]

\* what get_zone_by_address returns for the zone _find_best_zone_for_postcode
\* gave it (lines 93-109)
RaceResult(zones, found, adres_data) ==
    LET zone_info == IF found # None THEN found ELSE GetFallbackZone(zones)
    IN  IF zone_info # None
        THEN ZoneResult(zone_info, adres_data, adres_data.coordinates,
                        zone_info.detection_method)
        ELSE None

\* a thread enters get_zone_by_address and runs up to the cache check: the
\* address lookup, the dummy address and the cache key; an exception on the way
\* ends the call in the except branch
RaceBegin(t, postcode, bag) ==
    /\ threads[t].pc = "idle"
    /\ LET postcode_clean   == Upper(RemoveSpaces(postcode))
           postcode_cijfers == Prefix(postcode_clean, 4)
           no_bag     == bag.kind # "adres"
           raises     == IF no_bag THEN GuessCityRaises(postcode_cijfers)
                         ELSE bag.adres.gemeente = NoneStr
           adres_data == IF no_bag
                         THEN [straatnaam |-> Onbekend,
                               woonplaats |-> GuessCityFromPostcode(postcode_cijfers),
                               gemeente |-> Lower(GuessCityFromPostcode(postcode_cijfers)),
                               coordinates |-> None]
                         ELSE bag.adres
       IN  threads' = [threads EXCEPT ![t] =
               IF raises
               THEN Done(postcode, bag, NoneStr,
                         ErrorFallback(available_zones, postcode_to_zone_cache, NoneStr).result,
                         FALSE, TRUE)
               ELSE [pc |-> "check", postcode |-> postcode, bag |-> bag,
                     adres_data |-> adres_data,
                     cache_key |-> postcode_clean \o <<"_">> \o Lower(adres_data.gemeente)]]
    /\ UNCHANGED <<tarief_data, available_zones, postcode_to_zone_cache, zone_call,
                   kosten_call, watched, api_call>>

\* cache_key in self.postcode_to_zone_cache
RaceCheck(t) ==
    /\ threads[t].pc = "check"
    /\ threads' = [threads EXCEPT ![t].pc =
                       IF threads[t].cache_key \in DOMAIN postcode_to_zone_cache
                       THEN "hit" ELSE "miss"]
    /\ UNCHANGED <<tarief_data, available_zones, postcode_to_zone_cache, zone_call,
                   kosten_call, watched, api_call>>

\* return self.postcode_to_zone_cache[cache_key], and the rest of the call
RaceRead(t) ==
    /\ threads[t].pc = "hit"
    /\ LET me == threads[t]
       IN  threads' = [threads EXCEPT ![t] =
               Done(me.postcode, me.bag, me.cache_key,
                    RaceResult(available_zones, postcode_to_zone_cache[me.cache_key],
                               me.adres_data),
                    TRUE, FALSE)]
    /\ UNCHANGED <<tarief_data, available_zones, postcode_to_zone_cache, zone_call,
                   kosten_call, watched, api_call>>

\* the strategies, the store of their result, and the rest of the call
RaceStore(t) ==
    /\ threads[t].pc = "miss"
    /\ \E r \in {ResolveMiss(available_zones, postcode_to_zone_cache, threads[t].cache_key,
                              Lower(threads[t].adres_data.gemeente))} :
           /\ postcode_to_zone_cache' = r.cache
           /\ threads' = [threads EXCEPT ![t] =
                  Done(threads[t].postcode, threads[t].bag, threads[t].cache_key,
                       RaceResult(available_zones, r.zone, threads[t].adres_data),
                       FALSE, FALSE)]
    /\ UNCHANGED <<tarief_data, available_zones, zone_call, kosten_call, watched, api_call>>

InitRace == InitWith(RaceTables)

NextRace ==
    \/ \E t \in RaceThreads, postcode \in RacePostcodes, bag \in RaceBags :
           RaceBegin(t, postcode, bag)
    \/ \E t \in RaceThreads : RaceCheck(t)
    \/ \E t \in RaceThreads : RaceRead(t)
    \/ \E t \in RaceThreads : RaceStore(t)

SpecRace == InitRace /\ [][NextRace]_vars

(***************************************************************************)
(* Properties of the fare engine (SpecFare)                                *)
(***************************************************************************)
\* the call has been made and returned a result
Billed == kosten_call # None /\ kosten_call.result # None

CallSeconds == kosten_call.eind_tijd - kosten_call.start_tijd

\* ceil(a / b) for a >= 0, b > 0
CeilDiv(a, b) == (a \div b) + (IF a % b = 0 THEN 0 ELSE 1)

\* the cost of minutes > 0 minutes in a bracket, as the specification states it
BracketCost(part, minutes) ==
    CeilDiv(minutes, part.step_size) * part.amount + part.cumulative_amount

RECURSIVE SumOver(_, _)
SumOver(f, indices) ==
    IF indices = {} THEN 0
    ELSE LET i == CHOOSE x \in indices : TRUE
         IN  f[i] + SumOver(f, indices \ {i})

\* minute m of the stay lies in bracket number i
InBracket(parts, i, m) == parts[i].start_duration <= m /\ m < parts[i].end_duration

\* the brackets cover the whole stay [0, duration): every point where a gap
\* could begin (0 and every bracket end) below duration lies in some bracket
Covered(parts, duration) ==
    \A b \in {0} \cup {parts[i].end_duration : i \in 1..Len(parts)} :
        b < duration => \E i \in 1..Len(parts) : InBracket(parts, i, b)

\* the minutes of [0, duration) that bracket i is the first, in sort order, to
\* contain: they run from the furthest end of the earlier brackets to its own end
MinutesInBracket(parts, i, duration) ==
    LET before == {0} \cup {parts[j].end_duration : j \in 1..(i - 1)}
        from   == Max(parts[i].start_duration, CHOOSE e \in before : \A o \in before : o <= e)
        to     == Min(duration, parts[i].end_duration)
    IN  IF to > from THEN to - from ELSE 0

\* the sum over the brackets that get minutes of ceil(minutes/step)*amount + cumulative
BracketSum(parts, duration) ==
    SumOver([i \in 1..Len(parts) |->
                 IF MinutesInBracket(parts, i, duration) > 0
                 THEN BracketCost(parts[i], MinutesInBracket(parts, i, duration))
                 ELSE 0],
            1..Len(parts))

BilledMinutes(walk) == SumOver([k \in 1..Len(walk.billed) |-> walk.billed[k].minutes],
                               1..Len(walk.billed))

\* C1: when the date-valid brackets cover the whole duration, the total is the
\* sum over the brackets of ceil(minutes_in_bracket/step)*amount + cumulative,
\* the minutes attributed to the brackets add up to the duration, and the
\* 90-minute scenario costs 5.50
C1_CoveredTotalIsBracketSum ==
    (Billed /\ Covered(kosten_call.tarief_parts, kosten_call.result.duur_minuten)) =>
        LET parts == kosten_call.tarief_parts
            d     == kosten_call.result.duur_minuten
        IN  /\ kosten_call.walk.total_cost = BracketSum(parts, d)
            /\ kosten_call.result.totaal_kosten = Round2(BracketSum(parts, d))
            /\ BilledMinutes(kosten_call.walk) = d
            /\ \A k \in 1..Len(kosten_call.walk.billed) :
                   kosten_call.walk.billed[k].minutes =
                       MinutesInBracket(parts, kosten_call.walk.billed[k].part, d)
            /\ (tarief_data = ExampleTable /\ d = 90) => kosten_call.result.totaal_kosten = 550

\* the 90-minute scenario has been computed: 60 minutes in [0,60), 30 in the tail bracket
C1_Witness ==
    /\ Billed
    /\ tarief_data = ExampleTable
    /\ kosten_call.result.duur_minuten = 90
    /\ Len(kosten_call.walk.billed) = 2
    /\ kosten_call.walk.billed[1].minutes = 60
    /\ kosten_call.walk.billed[2].minutes = 30
    /\ kosten_call.result.totaal_kosten = 550

\* every delta a call of this dataset can be made with
DeltasOf(rows) == Deltas \cup (IF rows \in GeneratedTables THEN {} ELSE LongDeltas)

\* the brackets have a gap or an overlap
GapOrOverlap(parts) ==
    \E i \in 1..(Len(parts) - 1) : parts[i].end_duration # parts[i + 1].start_duration

\* C2: with the start fixed, a later end never costs less: the total of every
\* call with an earlier end on the same zone and start is at most this total
C2_CostMonotoneInEnd ==
    Billed =>
        \A delta \in DeltasOf(tarief_data) :
            delta <= CallSeconds =>
                \A shorter \in {BerekenKostenResult(tarief_data, kosten_call.zone_info,
                                    kosten_call.start_tijd, kosten_call.start_tijd + delta)} :
                    shorter.result # None =>
                        /\ shorter.result.totaal_kosten <= kosten_call.result.totaal_kosten
                        /\ shorter.walk.total_cost <= kosten_call.walk.total_cost

\* a bracket set with a gap or overlap where a call with an earlier end is
\* strictly cheaper and part of the longer stay is billed by the tail
C2_Witness ==
    /\ Billed
    /\ GapOrOverlap(kosten_call.tarief_parts)
    /\ \E k \in 1..Len(kosten_call.walk.billed) : kosten_call.walk.billed[k].tail
    /\ \E delta \in DeltasOf(tarief_data) :
           /\ delta < CallSeconds
           /\ \E shorter \in {BerekenKostenResult(tarief_data, kosten_call.zone_info,
                                  kosten_call.start_tijd, kosten_call.start_tijd + delta)} :
                  /\ shorter.result # None
                  /\ shorter.result.totaal_kosten < kosten_call.result.totaal_kosten

LastPart(parts) == parts[Len(parts)]

\* C3: when the last bracket in sort order is unbounded, no minute is left
\* unbilled: the minutes billed in the walk and in the tail add up to the
\* duration, and what the walk leaves over is billed by the tail with the last
\* bracket's per-step formula
C3_UnboundedTailBillsTheRest ==
    (Billed /\ LastPart(kosten_call.tarief_parts).end_duration = UnboundedEnd) =>
        LET parts  == kosten_call.tarief_parts
            walk   == kosten_call.walk
            d      == kosten_call.result.duur_minuten
            walked == {k \in 1..Len(walk.billed) : ~walk.billed[k].tail}
            tails  == {k \in 1..Len(walk.billed) : walk.billed[k].tail}
            in_walk == SumOver([k \in 1..Len(walk.billed) |-> walk.billed[k].minutes], walked)
        IN  /\ BilledMinutes(walk) = d
            /\ \A k \in 1..Len(walk.billed) :
                   walk.billed[k].cost = BracketCost(parts[walk.billed[k].part],
                                                     walk.billed[k].minutes)
            /\ walk.total_cost = SumOver([k \in 1..Len(walk.billed) |-> walk.billed[k].cost],
                                         1..Len(walk.billed))
            /\ in_walk < d =>
                   /\ tails = {Len(walk.billed)}
                   /\ walk.billed[Len(walk.billed)].part = Len(parts)
                   /\ walk.billed[Len(walk.billed)].minutes = d - in_walk
            /\ in_walk = d => tails = {}

\* a stay that runs past the last finite bracket into a gap: the walk bills the
\* finite bracket and the tail bills the rest
C3_Witness ==
    /\ Billed
    /\ Len(kosten_call.tarief_parts) = 2
    /\ kosten_call.tarief_parts[1].end_duration < kosten_call.tarief_parts[2].start_duration
    /\ kosten_call.tarief_parts[2].end_duration = UnboundedEnd
    /\ Len(kosten_call.walk.billed) = 2
    /\ ~kosten_call.walk.billed[1].tail
    /\ kosten_call.walk.billed[2].tail
    /\ kosten_call.walk.billed[2].minutes > 1

\* the zone of the call has a bracket that is valid on the date of start_tijd
HasValidBracket ==
    /\ kosten_call.zone_info # None
    /\ \E i \in 1..Len(tarief_data) :
           /\ tarief_data[i].AreaManagerId = kosten_call.zone_info.area_manager_id
           /\ tarief_data[i].FareCalculationCode = kosten_call.zone_info.fare_calculation_code
           /\ tarief_data[i].StartDateFarePart
                  <= EpochDate + (kosten_call.start_tijd \div SecondsPerDay)
           /\ EpochDate + (kosten_call.start_tijd \div SecondsPerDay)
                  <= tarief_data[i].EndDateFarePart

\* C4: an interval with eind_tijd <= start_tijd gets no result, and no cost is
\* computed for it
C4_NonPositiveIntervalIsAbsent ==
    (kosten_call # None /\ kosten_call.eind_tijd <= kosten_call.start_tijd) =>
        /\ kosten_call.result = None
        /\ kosten_call.walk = None

\* eind_tijd = start_tijd on a zone that has valid brackets: absent
C4_Witness ==
    /\ kosten_call # None
    /\ kosten_call.eind_tijd = kosten_call.start_tijd
    /\ HasValidBracket
    /\ kosten_call.result = None

\* C5: the result is absent only for an absent zone, eind_tijd <= start_tijd or
\* no bracket valid on the start date; every other call returns a result whose
\* duur_minuten is floor(seconds / 60)
C5_AbsentOnlyInListedCases ==
    kosten_call # None =>
        IF kosten_call.eind_tijd > kosten_call.start_tijd /\ HasValidBracket
        THEN /\ kosten_call.result # None
             /\ kosten_call.result.duur_minuten = CallSeconds \div SecondsPerMinute
        ELSE kosten_call.result = None

(***************************************************************************)
(* Properties of the zone resolver (Spec, SpecWatch)                       *)
(***************************************************************************)
Resolved == zone_call # None

\* the zone key a call returned, NoneStr for None
ZoneIdOf(call) == IF call.result = None THEN NoneStr ELSE call.result.zone_id

\* C6: get_zone_by_address always returns: a zone when the catalog is not
\* empty, None only when it is empty, whatever the postcode, the outcome of the
\* address lookup and the calls made before
C6_ZoneUnlessCatalogEmpty ==
    Resolved => (zone_call.result = None <=> Len(available_zones) = 0)

\* the except branch has returned a zone: the address lookup raised or found
\* nothing for a postcode without digits, after other calls filled the cache
C6_Witness ==
    /\ Resolved
    /\ zone_call.error_path
    /\ zone_call.bag.kind # "adres"
    /\ zone_call.result # None
    /\ zone_call.result.detection_method = "error_fallback"
    /\ DOMAIN postcode_to_zone_cache # {}

\* the municipality a call was made with: the one of the address found, or absent
MunicipalityOf(call) == IF call.bag.kind = "adres" THEN call.bag.adres.gemeente ELSE <<"absent">>

SameInput(a, b) == a.postcode = b.postcode /\ MunicipalityOf(a) = MunicipalityOf(b)

\* C7: a call returns the zone key that an earlier call with the same postcode
\* and municipality returned, whatever calls were made in between
C7_SameInputSameZone ==
    (watched # None /\ Resolved /\ SameInput(zone_call, watched)) =>
        ZoneIdOf(zone_call) = ZoneIdOf(watched)

\* a fresh city-heuristic result, other keys resolved afterwards, then the same
\* input answered from the cache
C7_Witness ==
    /\ watched # None
    /\ Resolved
    /\ SameInput(zone_call, watched)
    /\ watched.ran_heuristics
    /\ watched.result # None
    /\ watched.result.detection_method = "city_heuristics"
    /\ zone_call.cache_hit
    /\ Cardinality(DOMAIN postcode_to_zone_cache) >= 3

\* the first zone, in catalog order, among those with the most rows
FirstMostPopular(zones) ==
    zones[CHOOSE i \in 1..Len(zones) :
              /\ \A j \in 1..Len(zones) : zones[j].record_count <= zones[i].record_count
              /\ \A j \in 1..(i - 1) : zones[j].record_count # zones[i].record_count]

\* the lower-cased municipality a call on the normal path resolves with
GemeenteOf(call) ==
    IF call.bag.kind = "adres" THEN Lower(call.bag.adres.gemeente)
    ELSE Lower(GuessCityFromPostcode(Prefix(Upper(RemoveSpaces(call.postcode)), 4)))

InCatalog(zones, area_id, fare_code) ==
    \E i \in 1..Len(zones) : /\ zones[i].area_manager_id = area_id
                             /\ zones[i].fare_calculation_code = fare_code

\* the (pair, code) positions of the city table entry whose zone is in the catalog
CityHits(zones, entry) ==
    { pos \in { <<a, b>> : a \in 1..Len(entry.pairs), b \in 1..4 } :
          /\ pos[2] <= Len(entry.pairs[pos[1]][2])
          /\ InCatalog(zones, entry.pairs[pos[1]][1], entry.pairs[pos[1]][2][pos[2]]) }

\* the candidates of the municipality that are in the catalog, as positions
CityHitsOf(zones, gemeente) ==
    UNION { CityHits(zones, CityPatterns[p]) :
                p \in {q \in 1..Len(CityPatterns) : CityPatterns[q].city = gemeente} }

Before(pos1, pos2) == pos1[1] < pos2[1] \/ (pos1[1] = pos2[1] /\ pos1[2] < pos2[2])

\* no city heuristic matches for the call
NoCityMatch(call) == call.error_path \/ CityHitsOf(available_zones, GemeenteOf(call)) = {}

\* C8: when no city heuristic matches and the catalog is not empty, the zone
\* returned is the one with the most rows, among equals the first in catalog
\* (grouping) order, which is also the head of the zone listing
C8_FallbackIsFirstMostPopular ==
    (Resolved /\ Len(available_zones) > 0 /\ NoCityMatch(zone_call)) =>
        /\ zone_call.result # None
        /\ zone_call.result.zone_id = FirstMostPopular(available_zones).zone_id
        /\ zone_call.result.zone_id = GetAvailableZones(available_zones).zones[1].zone_id

\* the fallback chose among zones with equal counts: the first of the grouping
\* order, which is the last of the file
C8_Witness ==
    /\ Resolved
    /\ tarief_data = TiedTable
    /\ zone_call.ran_most_popular
    /\ zone_call.result # None
    /\ zone_call.result.zone_id = ZoneKey(3, PR01)
    /\ zone_call.result.detection_method = "most_popular"

\* C9: on the normal path, a municipality of the city table with a candidate in
\* the catalog gets the first such candidate, in pair order and then code
\* order, tagged city_heuristics; every other municipality gets the most
\* popular zone, tagged most_popular
C9_CityHeuristicFirstCandidate ==
    (Resolved /\ ~zone_call.error_path /\ Len(available_zones) > 0) =>
        LET hits == CityHitsOf(available_zones, GemeenteOf(zone_call))
            entry == CityPatterns[CHOOSE p \in 1..Len(CityPatterns) :
                                      CityPatterns[p].city = GemeenteOf(zone_call)]
        IN  /\ zone_call.result # None
            /\ hits # {} =>
                   /\ \E pos \in hits :
                          /\ \A other \in hits : ~Before(other, pos)
                          /\ zone_call.result.area_manager_id = entry.pairs[pos[1]][1]
                          /\ zone_call.result.fare_calculation_code
                                 = entry.pairs[pos[1]][2][pos[2]]
                   /\ zone_call.result.detection_method = "city_heuristics"
            /\ hits = {} =>
                   /\ zone_call.result.zone_id = FirstMostPopular(available_zones).zone_id
                   /\ zone_call.result.detection_method = "most_popular"

\* Rotterdam, guessed from the postcode, resolved freshly to the second fare
\* code of its first pair, while another zone has more rows
C9_Witness ==
    /\ Resolved
    /\ tarief_data = CityTable
    /\ zone_call.bag.kind = "raises"
    /\ zone_call.ran_heuristics
    /\ ~zone_call.ran_most_popular
    /\ zone_call.result # None
    /\ zone_call.result.zone_id = ZoneKey(17, GAR01)
    /\ zone_call.result.detection_method = "city_heuristics"
    /\ FirstMostPopular(available_zones).zone_id # zone_call.result.zone_id

\* C10: an entry of the cache is never changed or removed, and a call whose key
\* is in the cache returns the stored zone with its stored detection method
\* without running the heuristic or the fallback
C10_CacheHitReturnsStored ==
    [][\A key \in DOMAIN postcode_to_zone_cache :
           /\ key \in DOMAIN postcode_to_zone_cache'
           /\ postcode_to_zone_cache'[key] = postcode_to_zone_cache[key]
           /\ zone_call'.cache_key = key =>
                  /\ zone_call'.cache_hit
                  /\ ~zone_call'.ran_heuristics
                  /\ ~zone_call'.ran_most_popular
                  /\ ~zone_call'.ran_fallback
                  /\ zone_call'.result # None
                  /\ zone_call'.result.zone_id = postcode_to_zone_cache[key].zone_id
                  /\ zone_call'.result.detection_method
                         = postcode_to_zone_cache[key].detection_method]_vars

\* a call answered from the cache with a stored most_popular result, the cache
\* holding several entries
C10_Witness ==
    /\ Resolved
    /\ zone_call.cache_hit
    /\ zone_call.cache_key \in DOMAIN postcode_to_zone_cache
    /\ zone_call.result.detection_method = "most_popular"
    /\ zone_call.result.zone_id = postcode_to_zone_cache[zone_call.cache_key].zone_id
    /\ Cardinality(DOMAIN postcode_to_zone_cache) >= 3

(***************************************************************************)
(* Error handling of the resolver (Spec)                                   *)
(***************************************************************************)
\* C11: a call that ends on the error path leaves the cache as it was, and the
\* cache only ever holds city_heuristics and most_popular results, so that a
\* later call with the same input is not answered with a stored error result
C11_ErrorPathNotCached ==
    [][/\ (zone_call' # None /\ zone_call'.error_path) =>
               postcode_to_zone_cache' = postcode_to_zone_cache
       /\ \A key \in DOMAIN postcode_to_zone_cache' :
               postcode_to_zone_cache'[key].detection_method
                   \in {"city_heuristics", "most_popular"}]_vars

\* a call that ended on the error path with a zone, while the cache holds
\* entries of earlier calls
C11_Witness ==
    /\ Resolved
    /\ zone_call.error_path
    /\ zone_call.result # None
    /\ zone_call.result.detection_method = "error_fallback"
    /\ DOMAIN postcode_to_zone_cache # {}

\* C12: a failed address lookup (it raised, or it returned nothing because
\* the address was not found or the service was unavailable) is absorbed: the
\* call stays off the error path and resolves with the municipality guessed
\* from the postcode prefix
C12_LookupFailureAbsorbed ==
    (Resolved /\ zone_call.bag.kind # "adres") =>
        /\ ~zone_call.error_path
        /\ zone_call.result # None =>
               zone_call.result.adres.gemeente =
                   Lower(GuessCityFromPostcode(
                             Prefix(Upper(RemoveSpaces(zone_call.postcode)), 4)))

(***************************************************************************)
(* Concurrent resolution (SpecRace)                                        *)
(***************************************************************************)
\* the calls that have returned off the error path
Returned == { t \in RaceThreads : threads[t].pc = "done" /\ ~threads[t].error_path }

\* C13: under every interleaving, the finished calls for one (postcode,
\* municipality) all return the same zone key, and the cache entry of that key
\* holds exactly the zone they returned, with its detection method
C13_RacingCallsAgree ==
    \A t \in Returned :
        /\ \A u \in Returned :
               threads[u].cache_key = threads[t].cache_key =>
                   ZoneIdOf(threads[u]) = ZoneIdOf(threads[t])
        /\ threads[t].result # None =>
               /\ threads[t].cache_key \in DOMAIN postcode_to_zone_cache
               /\ postcode_to_zone_cache[threads[t].cache_key].zone_id
                      = threads[t].result.zone_id
               /\ postcode_to_zone_cache[threads[t].cache_key].detection_method
                      = threads[t].result.detection_method

\* two calls for the same unseen key that both missed the cache and both
\* stored: the second store overwrote the first
C13_Witness ==
    \E t, u \in Returned :
        /\ t # u
        /\ threads[t].cache_key = threads[u].cache_key
        /\ ~threads[t].cache_hit /\ ~threads[u].cache_hit
        /\ threads[t].result # None
        /\ threads[t].result.detection_method = "city_heuristics"

(***************************************************************************)
(* Zone search (SpecApi)                                                   *)
(***************************************************************************)
\* the last call was of the given kind
IsCall(kind) == api_call # None /\ api_call.kind = kind

\* needle occurs in haystack, character by character from some position on
OccursIn(needle, haystack) ==
    \E at \in 1..(Len(haystack) + 1) :
        \A j \in 1..Len(needle) :
            /\ at + j - 1 <= Len(haystack)
            /\ haystack[at + j - 1] = needle[j]

\* the lower-cased term is in the lower-cased display name, in the lower-cased
\* fare code, or in the area id written as a number
Matches(zone_info, term) ==
    \/ OccursIn(Lower(term), Lower(zone_info.zone_naam))
    \/ OccursIn(Lower(term), Lower(zone_info.fare_calculation_code))
    \/ OccursIn(Lower(term), IntToStr(zone_info.area_manager_id))

\* C14: a search returns exactly the catalog zones that match the term in one
\* of the three fields: every match once, and nothing else
C14_SearchReturnsExactlyMatches ==
    (IsCall("search") /\ api_call.status = 200) =>
        /\ \A i \in 1..Len(available_zones) :
               Matches(available_zones[i], api_call.search_term) <=>
                   \E k \in 1..Len(api_call.results) :
                       api_call.results[k] = available_zones[i]
        /\ \A k \in 1..Len(api_call.results) :
               \E i \in 1..Len(available_zones) : api_call.results[k] = available_zones[i]
        /\ \A k, l \in 1..Len(api_call.results) :
               api_call.results[k] = api_call.results[l] => k = l

\* a search with an upper-case term that returns some zones of the catalog and
\* not others
C14_Witness ==
    /\ IsCall("search")
    /\ api_call.search_term = <<"T","A","R">>
    /\ Len(api_call.results) >= 2
    /\ Len(api_call.results) < Len(available_zones)

\* C15: a search for "utrecht" over a catalog that holds the zone with the
\* display name "Zone 34 - 34_TAR01" returns that zone
C15_SearchUtrechtFindsZone34 ==
    (IsCall("search") /\ api_call.search_term = <<"u","t","r","e","c","h","t">>) =>
        \A i \in 1..Len(available_zones) :
            available_zones[i].zone_naam = ZoneNaam(34, C34_TAR01) =>
                \E k \in 1..Len(api_call.results) :
                    api_call.results[k].zone_id = available_zones[i].zone_id

(***************************************************************************)
(* Breakdown and unit price of a cost result (SpecFare)                    *)
(***************************************************************************)
\* the brackets, by position in sort order, that got minutes of the duration
UsedParts(walk) == { walk.billed[k].part : k \in 1..Len(walk.billed) }

\* the breakdown line of a bracket
LineOf(part) ==
    [start_duration |-> part.start_duration, end_duration |-> part.end_duration,
     amount_per_step |-> part.amount, step_size_minutes |-> part.step_size]

\* C16: the breakdown of a cost result has at most three lines, and each line
\* is the line of a bracket that got minutes of the duration
C16_BreakdownListsUsedBrackets ==
    Billed =>
        /\ Len(kosten_call.result.details) <= 3
        /\ \A k \in 1..Len(kosten_call.result.details) :
               \E i \in UsedParts(kosten_call.walk) :
                   kosten_call.result.details[k] = LineOf(kosten_call.tarief_parts[i])

\* the positions in sort order of the brackets that added a non-zero cost
CostlyParts(walk) ==
    { walk.billed[k].part : k \in { b \in 1..Len(walk.billed) : walk.billed[b].cost # 0 } }

\* C17: the unit price of a cost result is the amount per step and the step
\* size of the first bracket in sort order that added a non-zero cost, the
\* unbounded tail included
C17_UnitPriceOfFirstCostlyBracket ==
    (Billed /\ CostlyParts(kosten_call.walk) # {}) =>
        \E i \in CostlyParts(kosten_call.walk) :
            /\ \A j \in CostlyParts(kosten_call.walk) : i <= j
            /\ kosten_call.result.tarief_info.tarief_per_eenheid
                   = kosten_call.tarief_parts[i].amount
            /\ kosten_call.result.tarief_info.eenheid
                   = IntToStr(kosten_call.tarief_parts[i].step_size) \o <<" ">> \o Minuten

(***************************************************************************)
(* The /bereken request flow and the read-only tables (SpecApi)            *)
(***************************************************************************)
\* the last call was a /bereken request that got as far as resolving the zone
Resolving == IsCall("bereken") /\ api_call.zone_called

\* C18: with an empty catalog the zone of a /bereken request is absent, the
\* request is answered 404 and bereken_kosten is not called in it
C18_EmptyCatalogStopsBeforeCost ==
    (Resolving /\ Len(available_zones) = 0) =>
        /\ api_call.zone_info = None
        /\ api_call.status = 404
        /\ ~api_call.kosten_called

\* a well-formed /bereken request with a valid interval served from an empty
\* catalog
C18_Witness ==
    /\ Resolving
    /\ Len(available_zones) = 0
    /\ api_call.data.eind_tijd > api_call.data.start_tijd
    /\ api_call.status = 404

\* the resolved zone of the request has a bracket valid on the date of the
\* start of the interval
ValidOnStartDate ==
    Len(GetTariefParts(tarief_data, api_call.zone_info.area_manager_id,
                       api_call.zone_info.fare_calculation_code,
                       StrftimeYmd(api_call.data.start_tijd))) > 0

\* C19: a /bereken request whose resolved zone has no bracket valid on the
\* start date is answered 404, and one whose zone has such a bracket is not
\* answered 404
C19_NoTariffIsNotFound ==
    (Resolving /\ api_call.zone_info # None) =>
        /\ ~ValidOnStartDate => api_call.status = 404
        /\ ValidOnStartDate => api_call.status # 404

\* C20: no request changes a catalog entry or a tariff row; the catalog stays
\* the one built from the dataset at startup
C20_TablesAreReadOnly ==
    [][/\ available_zones' = available_zones
       /\ tarief_data' = tarief_data
       /\ available_zones' = LoadAllNprZones(tarief_data')]_vars

\* a /bereken request answered 200 with a zone found by the city heuristic and
\* stored in the cache, over a catalog of several zones
C20_Witness ==
    /\ Resolving
    /\ api_call.status = 200
    /\ api_call.zone_info.detection_method = "city_heuristics"
    /\ DOMAIN postcode_to_zone_cache # {}
    /\ Len(available_zones) >= 2
    /\ available_zones = LoadAllNprZones(tarief_data)

(***************************************************************************)
(* The accumulation walk (SpecFare)                                        *)
(***************************************************************************)
\* C21: in one cost computation a bracket with a cumulative amount is billed
\* at most once, so that its cumulative amount enters the total at most once
\* (not in the walk and again in the tail), whatever the duration
C21_CumulativeAddedOnce ==
    Billed =>
        \A k, l \in 1..Len(kosten_call.walk.billed) :
            (/\ kosten_call.walk.billed[k].part = kosten_call.walk.billed[l].part
             /\ kosten_call.tarief_parts[kosten_call.walk.billed[k].part].cumulative_amount # 0)
                => k = l

\* the date of start_tijd as a YYYYMMDD number
CalcDateOfCall == EpochDate + (kosten_call.start_tijd \div SecondsPerDay)

\* the indices of the dataset rows of the call's zone whose validity window
\* contains the date of start_tijd, both ends included
ValidRowsOfCall ==
    { i \in 1..Len(tarief_data) :
        /\ tarief_data[i].AreaManagerId = kosten_call.zone_info.area_manager_id
        /\ tarief_data[i].FareCalculationCode = kosten_call.zone_info.fare_calculation_code
        /\ tarief_data[i].StartDateFarePart <= CalcDateOfCall
        /\ CalcDateOfCall <= tarief_data[i].EndDateFarePart }

\* bracket part carries the values of dataset row row
SameBracket(part, row) ==
    /\ part.area_manager_id = row.AreaManagerId
    /\ part.fare_calculation_code = row.FareCalculationCode
    /\ StrToInt(part.start_date) = row.StartDateFarePart
    /\ StrToInt(part.end_date) = row.EndDateFarePart
    /\ part.start_duration = row.StartDurationFarePart
    /\ part.end_duration = row.EndDurationFarePart
    /\ part.amount = row.AmountFarePart
    /\ part.step_size = row.StepSizeFarePart
    /\ part.cumulative_amount = row.AmountCumulative

\* C22: for a call on a zone with a duration of at least a minute, the brackets
\* selected are exactly the rows of the zone whose validity window contains the
\* date of start_tijd (both ends included), each row once, in ascending order of
\* start_duration; and the call is absent exactly when there is no such row
C22_BracketSelection ==
    (kosten_call # None /\ kosten_call.zone_info # None /\ CallSeconds >= SecondsPerMinute) =>
        /\ (kosten_call.result = None) <=> (ValidRowsOfCall = {})
        /\ Len(kosten_call.tarief_parts) = Cardinality(ValidRowsOfCall)
        /\ \A i \in ValidRowsOfCall :
               Cardinality({k \in 1..Len(kosten_call.tarief_parts) :
                               SameBracket(kosten_call.tarief_parts[k], tarief_data[i])})
               = Cardinality({j \in ValidRowsOfCall :
                               SameBracket(TariefPart(tarief_data[i]), tarief_data[j])})
        /\ \A k \in 1..Len(kosten_call.tarief_parts) :
               \E i \in ValidRowsOfCall :
                   SameBracket(kosten_call.tarief_parts[k], tarief_data[i])
        /\ \A k, l \in 1..Len(kosten_call.tarief_parts) :
               k < l => kosten_call.tarief_parts[k].start_duration
                            <= kosten_call.tarief_parts[l].start_duration

\* a call on the last second of a day on which the zone has two rows that are
\* valid on that day only, next to rows of other days and of another zone: the
\* two rows are selected, the earlier bracket first
C22_Witness ==
    /\ Billed
    /\ kosten_call.start_tijd % SecondsPerDay = SecondsPerDay - 1
    /\ Cardinality(ValidRowsOfCall) = 2
    /\ \A i \in ValidRowsOfCall : tarief_data[i].EndDateFarePart = CalcDateOfCall
    /\ \E i \in 1..Len(tarief_data) :
           /\ i \notin ValidRowsOfCall
           /\ tarief_data[i].AreaManagerId = kosten_call.zone_info.area_manager_id
           /\ tarief_data[i].FareCalculationCode = kosten_call.zone_info.fare_calculation_code
    /\ Len(kosten_call.tarief_parts) = 2
    /\ kosten_call.tarief_parts[1].start_duration < kosten_call.tarief_parts[2].start_duration

\* a call on a date on which none of the zone's rows is valid: absent
C22_WitnessNoRows ==
    /\ kosten_call # None /\ kosten_call.zone_info # None
    /\ CallSeconds >= SecondsPerMinute
    /\ ValidRowsOfCall = {}
    /\ \E i \in 1..Len(tarief_data) :
           /\ tarief_data[i].AreaManagerId = kosten_call.zone_info.area_manager_id
           /\ tarief_data[i].FareCalculationCode = kosten_call.zone_info.fare_calculation_code
    /\ kosten_call.result = None

\* the whole minutes of the call's interval
MinutesOfCall == CallSeconds \div SecondsPerMinute

\* every row of the call's zone valid on the date of start_tijd is a bounded
\* bracket that ends before the stay does
StayOutlastsBrackets ==
    /\ kosten_call # None /\ kosten_call.zone_info # None
    /\ CallSeconds >= SecondsPerMinute
    /\ ValidRowsOfCall # {}
    /\ \A i \in ValidRowsOfCall :
           /\ tarief_data[i].EndDurationFarePart # UnboundedEnd
           /\ tarief_data[i].EndDurationFarePart < MinutesOfCall

\* C23: when minutes remain after the walk and the last bracket in sort order
\* is not unbounded, nothing is billed for the remaining minutes (no tail
\* step, the total is the sum of what the walk billed, and the billed minutes
\* fall short of the duration by the remainder), and the call still returns a
\* result whose duur_minuten is the full duration; in particular a stay that
\* outlasts all its bounded brackets returns such a result
C23_UncoveredRemainderDropped ==
    /\ (/\ Billed
        /\ kosten_call.walk.remaining_duration > 0
        /\ LastPart(kosten_call.tarief_parts).end_duration # UnboundedEnd) =>
            /\ kosten_call.result.duur_minuten = MinutesOfCall
            /\ \A k \in 1..Len(kosten_call.walk.billed) : ~kosten_call.walk.billed[k].tail
            /\ kosten_call.walk.total_cost =
                   SumOver([k \in 1..Len(kosten_call.walk.billed) |->
                               kosten_call.walk.billed[k].cost],
                           1..Len(kosten_call.walk.billed))
            /\ kosten_call.result.totaal_kosten = Round2(kosten_call.walk.total_cost)
            /\ BilledMinutes(kosten_call.walk)
                   = MinutesOfCall - kosten_call.walk.remaining_duration
    /\ StayOutlastsBrackets =>
            /\ kosten_call.result # None
            /\ kosten_call.walk.remaining_duration > 0
            /\ LastPart(kosten_call.tarief_parts).end_duration # UnboundedEnd

\* a stay of more minutes than its two bounded brackets hold: the walk bills
\* both, the rest is dropped, and the result reports the full duration
C23_Witness ==
    /\ StayOutlastsBrackets
    /\ Billed
    /\ Len(kosten_call.tarief_parts) = 2
    /\ Len(kosten_call.walk.billed) = 2
    /\ kosten_call.walk.total_cost > 0
    /\ kosten_call.walk.remaining_duration > 0
    /\ BilledMinutes(kosten_call.walk) < kosten_call.result.duur_minuten
    /\ kosten_call.result.duur_minuten = MinutesOfCall

\* the entries of billed made by the loop for the brackets in indices
LoopBilled(walk, indices) ==
    {k \in 1..Len(walk.billed) : ~walk.billed[k].tail /\ walk.billed[k].part \in indices}

\* the minutes the loop billed for the brackets in indices
LoopMinutes(walk, indices) ==
    SumOver([k \in 1..Len(walk.billed) |-> walk.billed[k].minutes], LoopBilled(walk, indices))

\* the cost the loop billed for the brackets in indices
LoopCost(walk, indices) ==
    SumOver([k \in 1..Len(walk.billed) |-> walk.billed[k].cost], LoopBilled(walk, indices))

\* C24: in the walk a bracket is passed over exactly when the minutes consumed
\* so far are fewer than its start_duration, and a bracket that is reached and
\* has room is billed; once a bracket is passed over every later one is too,
\* with nothing consumed in between, so the walk adds no further cost (none
\* at all when the first bracket starts after minute 0); the minutes that are
\* left are billed by the tail step, and only when the last bracket is unbounded
C24_SkipCascade ==
    Billed =>
        LET parts == kosten_call.tarief_parts
            walk  == kosten_call.walk
            d     == kosten_call.result.duur_minuten
            steps == kosten_call.walk.steps
            tails == {k \in 1..Len(walk.billed) : walk.billed[k].tail}
        IN  /\ \A k \in 1..Len(steps) :
                   /\ steps[k].part = k
                   /\ steps[k].remaining = d - LoopMinutes(walk, 1..(k - 1))
                   /\ steps[k].skipped <=>
                          (d - steps[k].remaining < parts[k].start_duration)
                   /\ steps[k].skipped => LoopBilled(walk, {k}) = {}
                   /\ (/\ ~steps[k].skipped
                       /\ parts[k].end_duration > d - steps[k].remaining) =>
                          \E b \in LoopBilled(walk, {k}) :
                              walk.billed[b].minutes =
                                  Min(steps[k].remaining,
                                      parts[k].end_duration - (d - steps[k].remaining))
            /\ \A k, l \in 1..Len(steps) :
                   (k < l /\ steps[k].skipped) =>
                       /\ steps[l].skipped
                       /\ steps[l].remaining = steps[k].remaining
            /\ \A k \in 1..Len(steps) :
                   steps[k].skipped =>
                       /\ Len(steps) = Len(parts)
                       /\ LoopBilled(walk, k..Len(parts)) = {}
                       /\ walk.remaining_duration = steps[k].remaining
                       /\ LoopCost(walk, 1..Len(parts)) = LoopCost(walk, 1..(k - 1))
            /\ parts[1].start_duration > 0 =>
                   /\ LoopBilled(walk, 1..Len(parts)) = {}
                   /\ walk.remaining_duration = d
            /\ (tails # {}) <=>
                   (walk.remaining_duration > 0 /\ LastPart(parts).end_duration = UnboundedEnd)
            /\ \A t \in tails :
                   /\ t = Len(walk.billed)
                   /\ walk.billed[t].part = Len(parts)
                   /\ walk.billed[t].minutes = walk.remaining_duration
            /\ walk.total_cost =
                   LoopCost(walk, 1..Len(parts))
                   + SumOver([k \in 1..Len(walk.billed) |-> walk.billed[k].cost], tails)

\* the first bracket is billed, the second one starts after a gap and is
\* passed over, and the tail bills the minutes that are left with it
C24_Witness ==
    /\ Billed
    /\ Len(kosten_call.walk.steps) = 2
    /\ ~kosten_call.walk.steps[1].skipped
    /\ kosten_call.walk.steps[1].minutes > 0
    /\ kosten_call.walk.steps[2].skipped
    /\ Len(kosten_call.walk.billed) = 2
    /\ kosten_call.walk.billed[2].tail
    /\ kosten_call.walk.billed[2].minutes = kosten_call.walk.steps[2].remaining

\* both brackets start after minute 0: both are passed over, the walk bills
\* nothing, and the last bracket being bounded nothing is billed at all
C24_WitnessNothingBilled ==
    /\ Billed
    /\ Len(kosten_call.walk.steps) = 2
    /\ kosten_call.walk.steps[1].skipped
    /\ kosten_call.walk.steps[2].skipped
    /\ kosten_call.walk.billed = <<>>
    /\ kosten_call.walk.total_cost = 0

\* two of the selected brackets share a minute, or are the same bracket twice
Overlapping(parts) ==
    \E i, j \in 1..Len(parts) :
        /\ i < j
        /\ parts[j].start_duration < parts[i].end_duration
        /\ parts[i].start_duration < parts[j].end_duration

\* C25: for any bracket set, at every step of the walk and at its end the
\* remaining duration lies in 0..duration; a bracket gets minutes only when
\* the minutes computed for it are positive, and then the remaining duration
\* goes down by exactly those minutes; and the minutes billed by the walk and
\* the tail together never exceed the duration
C25_AccumulationInvariant ==
    Billed =>
        LET walk  == kosten_call.walk
            d     == kosten_call.result.duur_minuten
            steps == kosten_call.walk.steps
        IN  /\ \A k \in 1..Len(steps) :
                   /\ 0 < steps[k].remaining /\ steps[k].remaining <= d
                   /\ steps[k].minutes >= 0
                   /\ steps[k].minutes <= steps[k].remaining
                   /\ (steps[k].minutes > 0) <=> (LoopBilled(walk, {steps[k].part}) # {})
                   /\ \A b \in LoopBilled(walk, {steps[k].part}) :
                          walk.billed[b].minutes = steps[k].minutes
                   /\ k < Len(steps) =>
                          steps[k + 1].remaining = steps[k].remaining - steps[k].minutes
                   /\ k = Len(steps) =>
                          walk.remaining_duration = steps[k].remaining - steps[k].minutes
            /\ 0 <= walk.remaining_duration /\ walk.remaining_duration <= d
            /\ \A b \in 1..Len(walk.billed) : walk.billed[b].minutes > 0
            /\ \A b \in 1..Len(walk.billed) :
                   ~walk.billed[b].tail =>
                       \E k \in 1..Len(steps) : steps[k].part = walk.billed[b].part
            /\ \A b, c \in LoopBilled(walk, 1..Len(kosten_call.tarief_parts)) :
                   walk.billed[b].part = walk.billed[c].part => b = c
            /\ LoopMinutes(walk, 1..Len(kosten_call.tarief_parts))
                   = d - walk.remaining_duration
            /\ BilledMinutes(walk) <= d

\* two overlapping brackets, the second reaching further than the first: both
\* get minutes, the second only those the first left, and the stay ends inside
\* the second
C25_Witness ==
    /\ Billed
    /\ Overlapping(kosten_call.tarief_parts)
    /\ Len(kosten_call.walk.steps) = 2
    /\ kosten_call.walk.steps[1].minutes > 0
    /\ kosten_call.walk.steps[2].minutes > 0
    /\ kosten_call.walk.steps[2].minutes
           < kosten_call.tarief_parts[2].end_duration
             - kosten_call.tarief_parts[2].start_duration
    /\ kosten_call.walk.remaining_duration = 0
    /\ BilledMinutes(kosten_call.walk) = kosten_call.result.duur_minuten

\* the same bracket twice: the second copy gets no minutes
C25_WitnessDuplicate ==
    /\ Billed
    /\ Len(kosten_call.tarief_parts) = 2
    /\ kosten_call.tarief_parts[1] = kosten_call.tarief_parts[2]
    /\ Len(kosten_call.walk.steps) = 2
    /\ kosten_call.walk.steps[1].minutes > 0
    /\ kosten_call.walk.steps[2].minutes = 0
    /\ kosten_call.walk.remaining_duration > 0

\* a stay longer than 999999 minutes: the walk and the tail together bill
\* exactly the duration
C25_WitnessLongStay ==
    /\ Billed
    /\ kosten_call.result.duur_minuten > UnboundedEnd
    /\ \E b \in 1..Len(kosten_call.walk.billed) : kosten_call.walk.billed[b].tail
    /\ BilledMinutes(kosten_call.walk) = kosten_call.result.duur_minuten

====
